---- MODULE Spec2Model ----
(***************************************************************************)
(* Model of the missend detector: extract_case_entries.parse_entries and   *)
(* monitor_service (build_case_json, process_case, monitor_directory).     *)
(*                                                                         *)
(* Text is a sequence of characters.  A character is a one-character      *)
(* string; a character outside ASCII is written "U+XXXX" (its code point)  *)
(* and still counts as ONE character, so Len is Python's len().  Tab, line *)
(* feed, form feed and carriage return are "\t", "\n", "\f" and "\r"; the    *)
(* grave accent is "U+0060".                                               *)
(***************************************************************************)
EXTENDS Integers, Sequences, FiniteSets, TLC

VARIABLES
    pc,              \* where the (single) thread is: m_* in monitor_directory, p_* in process_case
    STOP_REQUESTED,  \* the module globals set by handle_stop_signal
    FORCE_STOP,
    settings,        \* load_settings()
    files,           \* the monitored directory: path -> [exists, size]
    events,          \* how many times the outside world has touched the directory
    faults,          \* how many times mkdir, iterdir or unlink has raised its error
    processed,       \* monitor_directory's set of paths
    todo,            \* the rest of sorted(monitor_dir.iterdir())
    cur,             \* the path of the for loop
    wait,            \* wait_for_stable_size: [last_size, tries]
    case_text,       \* process_case's locals
    entries,
    llm_request,
    llm_text,
    webhooks,
    card,
    queue,           \* send_adaptive_card: the webhooks still to post to
    posts,           \* requests.post calls made for this case: [url, status]; "sent" until answered
    log,             \* logged since the case began: skipped:*, partial, result, failed:*, error:monitor
    calls,           \* path -> [invoked, oracle]: process_case calls and oracle requests
    arg,             \* the argument of a function applied on its own
    out              \* and what the function returned

caseVars == <<case_text, entries, llm_request, llm_text, webhooks, card, queue, posts, log>>
monVars == <<STOP_REQUESTED, FORCE_STOP, files, events, faults, processed, todo, cur, wait>>
fnVars == <<arg, out>>
vars == <<pc, settings, calls, caseVars, monVars, fnVars>>

(***************************************************************************)
(* Characters and strings                                                  *)
(***************************************************************************)
CHOON == "U+30FC"
IDEOSPACE == "U+3000"
LONG_S == "U+017F"
FW_COLON == "U+FF1A"
\* The words of the oracle's reply format.
RESULT_LABEL == <<"U+67FB", "U+95B2", "U+7D50", "U+679C", FW_COLON>>
REASON_LABEL == <<"U+7406", "U+7531", FW_COLON>>
APPROVE == <<"U+627F", "U+8A8D">>
REJECT == <<"U+5374", "U+4E0B">>
UNKNOWN == <<"U+4E0D", "U+660E">>
\* The ASCII letters.
UpperSeq == <<"A", "B", "C", "D", "E", "F", "G", "H", "I", "J", "K", "L", "M",
              "N", "O", "P", "Q", "R", "S", "T", "U", "V", "W", "X", "Y", "Z">>
LowerSeq == <<"a", "b", "c", "d", "e", "f", "g", "h", "i", "j", "k", "l", "m",
              "n", "o", "p", "q", "r", "s", "t", "u", "v", "w", "x", "y", "z">>

(***************************************************************************)
(* Python's character classes and case mappings, by code point (the        *)
(* Unicode tables of the interpreter the program runs on, Python 3.11)     *)
(***************************************************************************)
\* The printable ASCII characters in the order of their code points, 32 to 126.
ASCII_PRINTABLE ==
    <<" ", "!", "\"", "#", "$", "%", "&", "'", "(", ")", "*", "+", ",", "-",
      ".", "/", "0", "1", "2", "3", "4", "5", "6", "7", "8", "9", ":", ";",
      "<", "=", ">", "?", "@", "A", "B", "C", "D", "E", "F", "G", "H", "I",
      "J", "K", "L", "M", "N", "O", "P", "Q", "R", "S", "T", "U", "V", "W",
      "X", "Y", "Z", "[", "\\", "]", "^", "_", "U+0060", "a", "b", "c", "d",
      "e", "f", "g", "h", "i", "j", "k", "l", "m", "n", "o", "p", "q", "r",
      "s", "t", "u", "v", "w", "x", "y", "z", "{", "|", "}", "~">>

HEX_DIGITS == <<"0", "1", "2", "3", "4", "5", "6", "7", "8", "9",
                "A", "B", "C", "D", "E", "F">>

\* The code points of the characters written as one-character strings.
ASCII_ORD ==
    [c \in {ASCII_PRINTABLE[i] : i \in 1..Len(ASCII_PRINTABLE)} |->
        31 + (CHOOSE i \in 1..Len(ASCII_PRINTABLE) : ASCII_PRINTABLE[i] = c)]
    @@ ("\t" :> 9) @@ ("\n" :> 10) @@ ("\f" :> 12) @@ ("\r" :> 13)

HEX_VALUE ==
    [h \in {HEX_DIGITS[i] : i \in 1..16} |-> (CHOOSE i \in 1..16 : HEX_DIGITS[i] = h) - 1]
    @@ ("a" :> 10) @@ ("b" :> 11) @@ ("c" :> 12) @@ ("d" :> 13) @@ ("e" :> 14) @@ ("f" :> 15)

RECURSIVE HexFrom(_, _, _)
\* The number written in hexadecimal from the i-th character of the name c on.
HexFrom(c, i, acc) ==
    IF i > Len(c) THEN acc
    ELSE HexFrom(c, i + 1, 16 * acc + HEX_VALUE[SubSeq(c, i, i)])

\* ord(c)
Ord(c) == IF Len(c) = 1 THEN ASCII_ORD[c] ELSE HexFrom(c, 3, 0)

RECURSIVE HexOf(_, _)
\* n in hexadecimal, in at least `width` digits.
HexOf(n, width) ==
    IF n < 16 /\ width <= 1 THEN HEX_DIGITS[n + 1]
    ELSE HexOf(n \div 16, width - 1) \o HEX_DIGITS[(n % 16) + 1]

\* chr(n)
Chr(n) ==
    IF 32 <= n /\ n <= 126 THEN ASCII_PRINTABLE[n - 31]
    ELSE IF n = 9 THEN "\t"
    ELSE IF n = 10 THEN "\n"
    ELSE IF n = 12 THEN "\f"
    ELSE IF n = 13 THEN "\r"
    ELSE "U+" \o HexOf(n, 4)

\* n lies in one of the ranges <<first, last>>.
InRanges(n, ranges) ==
    \E i \in 1..Len(ranges) : ranges[i][1] <= n /\ n <= ranges[i][2]

\* The code points str.isspace() and the regex class \s accept.
SPACE_CODES ==
    {9, 10, 11, 12, 13, 28, 29, 30, 31, 32, 133, 160, 5760, 8192, 8193, 8194,
     8195, 8196, 8197, 8198, 8199, 8200, 8201, 8202, 8232, 8233, 8239, 8287,
     12288}

\* The code points str.splitlines() breaks at.
LINE_BREAK_CODES ==
    {10, 11, 12, 13, 28, 29, 30, 133, 8232, 8233}

\* The code points of the digit zero of every script: the regex class \d accepts
\* a zero and the nine code points after it.
DIGIT_ZEROS ==
    {48, 1632, 1776, 1984, 2406, 2534, 2662, 2790, 2918, 3046, 3174, 3302,
     3430, 3558, 3664, 3792, 3872, 4160, 4240, 6112, 6160, 6470, 6608, 6784,
     6800, 6992, 7088, 7232, 7248, 42528, 43216, 43264, 43472, 43504, 43600,
     44016, 65296, 66720, 68912, 69734, 69872, 69942, 70096, 70384, 70736,
     70864, 71248, 71360, 71472, 71904, 72016, 72784, 73040, 73120, 92768,
     92864, 93008, 120782, 120792, 120802, 120812, 120822, 123200, 123632,
     125264, 130032}

\* The ranges of code points the regex class \w accepts.
WORD_RANGES ==
    <<<<48, 57>>, <<65, 90>>, <<95, 95>>, <<97, 122>>, <<170, 170>>,
      <<178, 179>>, <<181, 181>>, <<185, 186>>, <<188, 190>>, <<192, 214>>,
      <<216, 246>>, <<248, 705>>, <<710, 721>>, <<736, 740>>, <<748, 748>>,
      <<750, 750>>, <<880, 884>>, <<886, 887>>, <<890, 893>>, <<895, 895>>,
      <<902, 902>>, <<904, 906>>, <<908, 908>>, <<910, 929>>, <<931, 1013>>,
      <<1015, 1153>>, <<1162, 1327>>, <<1329, 1366>>, <<1369, 1369>>,
      <<1376, 1416>>, <<1488, 1514>>, <<1519, 1522>>, <<1568, 1610>>,
      <<1632, 1641>>, <<1646, 1647>>, <<1649, 1747>>, <<1749, 1749>>,
      <<1765, 1766>>, <<1774, 1788>>, <<1791, 1791>>, <<1808, 1808>>,
      <<1810, 1839>>, <<1869, 1957>>, <<1969, 1969>>, <<1984, 2026>>,
      <<2036, 2037>>, <<2042, 2042>>, <<2048, 2069>>, <<2074, 2074>>,
      <<2084, 2084>>, <<2088, 2088>>, <<2112, 2136>>, <<2144, 2154>>,
      <<2160, 2183>>, <<2185, 2190>>, <<2208, 2249>>, <<2308, 2361>>,
      <<2365, 2365>>, <<2384, 2384>>, <<2392, 2401>>, <<2406, 2415>>,
      <<2417, 2432>>, <<2437, 2444>>, <<2447, 2448>>, <<2451, 2472>>,
      <<2474, 2480>>, <<2482, 2482>>, <<2486, 2489>>, <<2493, 2493>>,
      <<2510, 2510>>, <<2524, 2525>>, <<2527, 2529>>, <<2534, 2545>>,
      <<2548, 2553>>, <<2556, 2556>>, <<2565, 2570>>, <<2575, 2576>>,
      <<2579, 2600>>, <<2602, 2608>>, <<2610, 2611>>, <<2613, 2614>>,
      <<2616, 2617>>, <<2649, 2652>>, <<2654, 2654>>, <<2662, 2671>>,
      <<2674, 2676>>, <<2693, 2701>>, <<2703, 2705>>, <<2707, 2728>>,
      <<2730, 2736>>, <<2738, 2739>>, <<2741, 2745>>, <<2749, 2749>>,
      <<2768, 2768>>, <<2784, 2785>>, <<2790, 2799>>, <<2809, 2809>>,
      <<2821, 2828>>, <<2831, 2832>>, <<2835, 2856>>, <<2858, 2864>>,
      <<2866, 2867>>, <<2869, 2873>>, <<2877, 2877>>, <<2908, 2909>>,
      <<2911, 2913>>, <<2918, 2927>>, <<2929, 2935>>, <<2947, 2947>>,
      <<2949, 2954>>, <<2958, 2960>>, <<2962, 2965>>, <<2969, 2970>>,
      <<2972, 2972>>, <<2974, 2975>>, <<2979, 2980>>, <<2984, 2986>>,
      <<2990, 3001>>, <<3024, 3024>>, <<3046, 3058>>, <<3077, 3084>>,
      <<3086, 3088>>, <<3090, 3112>>, <<3114, 3129>>, <<3133, 3133>>,
      <<3160, 3162>>, <<3165, 3165>>, <<3168, 3169>>, <<3174, 3183>>,
      <<3192, 3198>>, <<3200, 3200>>, <<3205, 3212>>, <<3214, 3216>>,
      <<3218, 3240>>, <<3242, 3251>>, <<3253, 3257>>, <<3261, 3261>>,
      <<3293, 3294>>, <<3296, 3297>>, <<3302, 3311>>, <<3313, 3314>>,
      <<3332, 3340>>, <<3342, 3344>>, <<3346, 3386>>, <<3389, 3389>>,
      <<3406, 3406>>, <<3412, 3414>>, <<3416, 3425>>, <<3430, 3448>>,
      <<3450, 3455>>, <<3461, 3478>>, <<3482, 3505>>, <<3507, 3515>>,
      <<3517, 3517>>, <<3520, 3526>>, <<3558, 3567>>, <<3585, 3632>>,
      <<3634, 3635>>, <<3648, 3654>>, <<3664, 3673>>, <<3713, 3714>>,
      <<3716, 3716>>, <<3718, 3722>>, <<3724, 3747>>, <<3749, 3749>>,
      <<3751, 3760>>, <<3762, 3763>>, <<3773, 3773>>, <<3776, 3780>>,
      <<3782, 3782>>, <<3792, 3801>>, <<3804, 3807>>, <<3840, 3840>>,
      <<3872, 3891>>, <<3904, 3911>>, <<3913, 3948>>, <<3976, 3980>>,
      <<4096, 4138>>, <<4159, 4169>>, <<4176, 4181>>, <<4186, 4189>>,
      <<4193, 4193>>, <<4197, 4198>>, <<4206, 4208>>, <<4213, 4225>>,
      <<4238, 4238>>, <<4240, 4249>>, <<4256, 4293>>, <<4295, 4295>>,
      <<4301, 4301>>, <<4304, 4346>>, <<4348, 4680>>, <<4682, 4685>>,
      <<4688, 4694>>, <<4696, 4696>>, <<4698, 4701>>, <<4704, 4744>>,
      <<4746, 4749>>, <<4752, 4784>>, <<4786, 4789>>, <<4792, 4798>>,
      <<4800, 4800>>, <<4802, 4805>>, <<4808, 4822>>, <<4824, 4880>>,
      <<4882, 4885>>, <<4888, 4954>>, <<4969, 4988>>, <<4992, 5007>>,
      <<5024, 5109>>, <<5112, 5117>>, <<5121, 5740>>, <<5743, 5759>>,
      <<5761, 5786>>, <<5792, 5866>>, <<5870, 5880>>, <<5888, 5905>>,
      <<5919, 5937>>, <<5952, 5969>>, <<5984, 5996>>, <<5998, 6000>>,
      <<6016, 6067>>, <<6103, 6103>>, <<6108, 6108>>, <<6112, 6121>>,
      <<6128, 6137>>, <<6160, 6169>>, <<6176, 6264>>, <<6272, 6276>>,
      <<6279, 6312>>, <<6314, 6314>>, <<6320, 6389>>, <<6400, 6430>>,
      <<6470, 6509>>, <<6512, 6516>>, <<6528, 6571>>, <<6576, 6601>>,
      <<6608, 6618>>, <<6656, 6678>>, <<6688, 6740>>, <<6784, 6793>>,
      <<6800, 6809>>, <<6823, 6823>>, <<6917, 6963>>, <<6981, 6988>>,
      <<6992, 7001>>, <<7043, 7072>>, <<7086, 7141>>, <<7168, 7203>>,
      <<7232, 7241>>, <<7245, 7293>>, <<7296, 7304>>, <<7312, 7354>>,
      <<7357, 7359>>, <<7401, 7404>>, <<7406, 7411>>, <<7413, 7414>>,
      <<7418, 7418>>, <<7424, 7615>>, <<7680, 7957>>, <<7960, 7965>>,
      <<7968, 8005>>, <<8008, 8013>>, <<8016, 8023>>, <<8025, 8025>>,
      <<8027, 8027>>, <<8029, 8029>>, <<8031, 8061>>, <<8064, 8116>>,
      <<8118, 8124>>, <<8126, 8126>>, <<8130, 8132>>, <<8134, 8140>>,
      <<8144, 8147>>, <<8150, 8155>>, <<8160, 8172>>, <<8178, 8180>>,
      <<8182, 8188>>, <<8304, 8305>>, <<8308, 8313>>, <<8319, 8329>>,
      <<8336, 8348>>, <<8450, 8450>>, <<8455, 8455>>, <<8458, 8467>>,
      <<8469, 8469>>, <<8473, 8477>>, <<8484, 8484>>, <<8486, 8486>>,
      <<8488, 8488>>, <<8490, 8493>>, <<8495, 8505>>, <<8508, 8511>>,
      <<8517, 8521>>, <<8526, 8526>>, <<8528, 8585>>, <<9312, 9371>>,
      <<9450, 9471>>, <<10102, 10131>>, <<11264, 11492>>, <<11499, 11502>>,
      <<11506, 11507>>, <<11517, 11517>>, <<11520, 11557>>, <<11559, 11559>>,
      <<11565, 11565>>, <<11568, 11623>>, <<11631, 11631>>, <<11648, 11670>>,
      <<11680, 11686>>, <<11688, 11694>>, <<11696, 11702>>, <<11704, 11710>>,
      <<11712, 11718>>, <<11720, 11726>>, <<11728, 11734>>, <<11736, 11742>>,
      <<11823, 11823>>, <<12293, 12295>>, <<12321, 12329>>, <<12337, 12341>>,
      <<12344, 12348>>, <<12353, 12438>>, <<12445, 12447>>, <<12449, 12538>>,
      <<12540, 12543>>, <<12549, 12591>>, <<12593, 12686>>, <<12690, 12693>>,
      <<12704, 12735>>, <<12784, 12799>>, <<12832, 12841>>, <<12872, 12879>>,
      <<12881, 12895>>, <<12928, 12937>>, <<12977, 12991>>, <<13312, 19903>>,
      <<19968, 42124>>, <<42192, 42237>>, <<42240, 42508>>, <<42512, 42539>>,
      <<42560, 42606>>, <<42623, 42653>>, <<42656, 42735>>, <<42775, 42783>>,
      <<42786, 42888>>, <<42891, 42954>>, <<42960, 42961>>, <<42963, 42963>>,
      <<42965, 42969>>, <<42994, 43009>>, <<43011, 43013>>, <<43015, 43018>>,
      <<43020, 43042>>, <<43056, 43061>>, <<43072, 43123>>, <<43138, 43187>>,
      <<43216, 43225>>, <<43250, 43255>>, <<43259, 43259>>, <<43261, 43262>>,
      <<43264, 43301>>, <<43312, 43334>>, <<43360, 43388>>, <<43396, 43442>>,
      <<43471, 43481>>, <<43488, 43492>>, <<43494, 43518>>, <<43520, 43560>>,
      <<43584, 43586>>, <<43588, 43595>>, <<43600, 43609>>, <<43616, 43638>>,
      <<43642, 43642>>, <<43646, 43695>>, <<43697, 43697>>, <<43701, 43702>>,
      <<43705, 43709>>, <<43712, 43712>>, <<43714, 43714>>, <<43739, 43741>>,
      <<43744, 43754>>, <<43762, 43764>>, <<43777, 43782>>, <<43785, 43790>>,
      <<43793, 43798>>, <<43808, 43814>>, <<43816, 43822>>, <<43824, 43866>>,
      <<43868, 43881>>, <<43888, 44002>>, <<44016, 44025>>, <<44032, 55203>>,
      <<55216, 55238>>, <<55243, 55291>>, <<63744, 64109>>, <<64112, 64217>>,
      <<64256, 64262>>, <<64275, 64279>>, <<64285, 64285>>, <<64287, 64296>>,
      <<64298, 64310>>, <<64312, 64316>>, <<64318, 64318>>, <<64320, 64321>>,
      <<64323, 64324>>, <<64326, 64433>>, <<64467, 64829>>, <<64848, 64911>>,
      <<64914, 64967>>, <<65008, 65019>>, <<65136, 65140>>, <<65142, 65276>>,
      <<65296, 65305>>, <<65313, 65338>>, <<65345, 65370>>, <<65382, 65470>>,
      <<65474, 65479>>, <<65482, 65487>>, <<65490, 65495>>, <<65498, 65500>>,
      <<65536, 65547>>, <<65549, 65574>>, <<65576, 65594>>, <<65596, 65597>>,
      <<65599, 65613>>, <<65616, 65629>>, <<65664, 65786>>, <<65799, 65843>>,
      <<65856, 65912>>, <<65930, 65931>>, <<66176, 66204>>, <<66208, 66256>>,
      <<66273, 66299>>, <<66304, 66339>>, <<66349, 66378>>, <<66384, 66421>>,
      <<66432, 66461>>, <<66464, 66499>>, <<66504, 66511>>, <<66513, 66517>>,
      <<66560, 66717>>, <<66720, 66729>>, <<66736, 66771>>, <<66776, 66811>>,
      <<66816, 66855>>, <<66864, 66915>>, <<66928, 66938>>, <<66940, 66954>>,
      <<66956, 66962>>, <<66964, 66965>>, <<66967, 66977>>, <<66979, 66993>>,
      <<66995, 67001>>, <<67003, 67004>>, <<67072, 67382>>, <<67392, 67413>>,
      <<67424, 67431>>, <<67456, 67461>>, <<67463, 67504>>, <<67506, 67514>>,
      <<67584, 67589>>, <<67592, 67592>>, <<67594, 67637>>, <<67639, 67640>>,
      <<67644, 67644>>, <<67647, 67669>>, <<67672, 67702>>, <<67705, 67742>>,
      <<67751, 67759>>, <<67808, 67826>>, <<67828, 67829>>, <<67835, 67867>>,
      <<67872, 67897>>, <<67968, 68023>>, <<68028, 68047>>, <<68050, 68096>>,
      <<68112, 68115>>, <<68117, 68119>>, <<68121, 68149>>, <<68160, 68168>>,
      <<68192, 68222>>, <<68224, 68255>>, <<68288, 68295>>, <<68297, 68324>>,
      <<68331, 68335>>, <<68352, 68405>>, <<68416, 68437>>, <<68440, 68466>>,
      <<68472, 68497>>, <<68521, 68527>>, <<68608, 68680>>, <<68736, 68786>>,
      <<68800, 68850>>, <<68858, 68899>>, <<68912, 68921>>, <<69216, 69246>>,
      <<69248, 69289>>, <<69296, 69297>>, <<69376, 69415>>, <<69424, 69445>>,
      <<69457, 69460>>, <<69488, 69505>>, <<69552, 69579>>, <<69600, 69622>>,
      <<69635, 69687>>, <<69714, 69743>>, <<69745, 69746>>, <<69749, 69749>>,
      <<69763, 69807>>, <<69840, 69864>>, <<69872, 69881>>, <<69891, 69926>>,
      <<69942, 69951>>, <<69956, 69956>>, <<69959, 69959>>, <<69968, 70002>>,
      <<70006, 70006>>, <<70019, 70066>>, <<70081, 70084>>, <<70096, 70106>>,
      <<70108, 70108>>, <<70113, 70132>>, <<70144, 70161>>, <<70163, 70187>>,
      <<70272, 70278>>, <<70280, 70280>>, <<70282, 70285>>, <<70287, 70301>>,
      <<70303, 70312>>, <<70320, 70366>>, <<70384, 70393>>, <<70405, 70412>>,
      <<70415, 70416>>, <<70419, 70440>>, <<70442, 70448>>, <<70450, 70451>>,
      <<70453, 70457>>, <<70461, 70461>>, <<70480, 70480>>, <<70493, 70497>>,
      <<70656, 70708>>, <<70727, 70730>>, <<70736, 70745>>, <<70751, 70753>>,
      <<70784, 70831>>, <<70852, 70853>>, <<70855, 70855>>, <<70864, 70873>>,
      <<71040, 71086>>, <<71128, 71131>>, <<71168, 71215>>, <<71236, 71236>>,
      <<71248, 71257>>, <<71296, 71338>>, <<71352, 71352>>, <<71360, 71369>>,
      <<71424, 71450>>, <<71472, 71483>>, <<71488, 71494>>, <<71680, 71723>>,
      <<71840, 71922>>, <<71935, 71942>>, <<71945, 71945>>, <<71948, 71955>>,
      <<71957, 71958>>, <<71960, 71983>>, <<71999, 71999>>, <<72001, 72001>>,
      <<72016, 72025>>, <<72096, 72103>>, <<72106, 72144>>, <<72161, 72161>>,
      <<72163, 72163>>, <<72192, 72192>>, <<72203, 72242>>, <<72250, 72250>>,
      <<72272, 72272>>, <<72284, 72329>>, <<72349, 72349>>, <<72368, 72440>>,
      <<72704, 72712>>, <<72714, 72750>>, <<72768, 72768>>, <<72784, 72812>>,
      <<72818, 72847>>, <<72960, 72966>>, <<72968, 72969>>, <<72971, 73008>>,
      <<73030, 73030>>, <<73040, 73049>>, <<73056, 73061>>, <<73063, 73064>>,
      <<73066, 73097>>, <<73112, 73112>>, <<73120, 73129>>, <<73440, 73458>>,
      <<73648, 73648>>, <<73664, 73684>>, <<73728, 74649>>, <<74752, 74862>>,
      <<74880, 75075>>, <<77712, 77808>>, <<77824, 78894>>, <<82944, 83526>>,
      <<92160, 92728>>, <<92736, 92766>>, <<92768, 92777>>, <<92784, 92862>>,
      <<92864, 92873>>, <<92880, 92909>>, <<92928, 92975>>, <<92992, 92995>>,
      <<93008, 93017>>, <<93019, 93025>>, <<93027, 93047>>, <<93053, 93071>>,
      <<93760, 93846>>, <<93952, 94026>>, <<94032, 94032>>, <<94099, 94111>>,
      <<94176, 94177>>, <<94179, 94179>>, <<94208, 100343>>,
      <<100352, 101589>>, <<101632, 101640>>, <<110576, 110579>>,
      <<110581, 110587>>, <<110589, 110590>>, <<110592, 110882>>,
      <<110928, 110930>>, <<110948, 110951>>, <<110960, 111355>>,
      <<113664, 113770>>, <<113776, 113788>>, <<113792, 113800>>,
      <<113808, 113817>>, <<119520, 119539>>, <<119648, 119672>>,
      <<119808, 119892>>, <<119894, 119964>>, <<119966, 119967>>,
      <<119970, 119970>>, <<119973, 119974>>, <<119977, 119980>>,
      <<119982, 119993>>, <<119995, 119995>>, <<119997, 120003>>,
      <<120005, 120069>>, <<120071, 120074>>, <<120077, 120084>>,
      <<120086, 120092>>, <<120094, 120121>>, <<120123, 120126>>,
      <<120128, 120132>>, <<120134, 120134>>, <<120138, 120144>>,
      <<120146, 120485>>, <<120488, 120512>>, <<120514, 120538>>,
      <<120540, 120570>>, <<120572, 120596>>, <<120598, 120628>>,
      <<120630, 120654>>, <<120656, 120686>>, <<120688, 120712>>,
      <<120714, 120744>>, <<120746, 120770>>, <<120772, 120779>>,
      <<120782, 120831>>, <<122624, 122654>>, <<123136, 123180>>,
      <<123191, 123197>>, <<123200, 123209>>, <<123214, 123214>>,
      <<123536, 123565>>, <<123584, 123627>>, <<123632, 123641>>,
      <<124896, 124902>>, <<124904, 124907>>, <<124909, 124910>>,
      <<124912, 124926>>, <<124928, 125124>>, <<125127, 125135>>,
      <<125184, 125251>>, <<125259, 125259>>, <<125264, 125273>>,
      <<126065, 126123>>, <<126125, 126127>>, <<126129, 126132>>,
      <<126209, 126253>>, <<126255, 126269>>, <<126464, 126467>>,
      <<126469, 126495>>, <<126497, 126498>>, <<126500, 126500>>,
      <<126503, 126503>>, <<126505, 126514>>, <<126516, 126519>>,
      <<126521, 126521>>, <<126523, 126523>>, <<126530, 126530>>,
      <<126535, 126535>>, <<126537, 126537>>, <<126539, 126539>>,
      <<126541, 126543>>, <<126545, 126546>>, <<126548, 126548>>,
      <<126551, 126551>>, <<126553, 126553>>, <<126555, 126555>>,
      <<126557, 126557>>, <<126559, 126559>>, <<126561, 126562>>,
      <<126564, 126564>>, <<126567, 126570>>, <<126572, 126578>>,
      <<126580, 126583>>, <<126585, 126588>>, <<126590, 126590>>,
      <<126592, 126601>>, <<126603, 126619>>, <<126625, 126627>>,
      <<126629, 126633>>, <<126635, 126651>>, <<127232, 127244>>,
      <<130032, 130041>>, <<131072, 173791>>, <<173824, 177976>>,
      <<177984, 178205>>, <<178208, 183969>>, <<183984, 191456>>,
      <<194560, 195101>>, <<196608, 201546>>>>

\* The lower-case mapping of single characters, as rows <<first, last, step,
\* offset>>: first, first + step, ... last each map to themselves + offset.
LOWER_ROWS ==
    <<<<65, 90, 1, 32>>, <<192, 214, 1, 32>>, <<216, 222, 1, 32>>,
      <<256, 302, 2, 1>>, <<304, 304, 1, -199>>, <<306, 310, 2, 1>>,
      <<313, 327, 2, 1>>, <<330, 374, 2, 1>>, <<376, 376, 1, -121>>,
      <<377, 381, 2, 1>>, <<385, 385, 1, 210>>, <<386, 388, 2, 1>>,
      <<390, 390, 1, 206>>, <<391, 391, 1, 1>>, <<393, 394, 1, 205>>,
      <<395, 395, 1, 1>>, <<398, 398, 1, 79>>, <<399, 399, 1, 202>>,
      <<400, 400, 1, 203>>, <<401, 401, 1, 1>>, <<403, 403, 1, 205>>,
      <<404, 404, 1, 207>>, <<406, 406, 1, 211>>, <<407, 407, 1, 209>>,
      <<408, 408, 1, 1>>, <<412, 412, 1, 211>>, <<413, 413, 1, 213>>,
      <<415, 415, 1, 214>>, <<416, 420, 2, 1>>, <<422, 422, 1, 218>>,
      <<423, 423, 1, 1>>, <<425, 425, 1, 218>>, <<428, 428, 1, 1>>,
      <<430, 430, 1, 218>>, <<431, 431, 1, 1>>, <<433, 434, 1, 217>>,
      <<435, 437, 2, 1>>, <<439, 439, 1, 219>>, <<440, 440, 1, 1>>,
      <<444, 444, 1, 1>>, <<452, 452, 1, 2>>, <<453, 453, 1, 1>>,
      <<455, 455, 1, 2>>, <<456, 456, 1, 1>>, <<458, 458, 1, 2>>,
      <<459, 475, 2, 1>>, <<478, 494, 2, 1>>, <<497, 497, 1, 2>>,
      <<498, 500, 2, 1>>, <<502, 502, 1, -97>>, <<503, 503, 1, -56>>,
      <<504, 542, 2, 1>>, <<544, 544, 1, -130>>, <<546, 562, 2, 1>>,
      <<570, 570, 1, 10795>>, <<571, 571, 1, 1>>, <<573, 573, 1, -163>>,
      <<574, 574, 1, 10792>>, <<577, 577, 1, 1>>, <<579, 579, 1, -195>>,
      <<580, 580, 1, 69>>, <<581, 581, 1, 71>>, <<582, 590, 2, 1>>,
      <<880, 882, 2, 1>>, <<886, 886, 1, 1>>, <<895, 895, 1, 116>>,
      <<902, 902, 1, 38>>, <<904, 906, 1, 37>>, <<908, 908, 1, 64>>,
      <<910, 911, 1, 63>>, <<913, 929, 1, 32>>, <<931, 939, 1, 32>>,
      <<975, 975, 1, 8>>, <<984, 1006, 2, 1>>, <<1012, 1012, 1, -60>>,
      <<1015, 1015, 1, 1>>, <<1017, 1017, 1, -7>>, <<1018, 1018, 1, 1>>,
      <<1021, 1023, 1, -130>>, <<1024, 1039, 1, 80>>, <<1040, 1071, 1, 32>>,
      <<1120, 1152, 2, 1>>, <<1162, 1214, 2, 1>>, <<1216, 1216, 1, 15>>,
      <<1217, 1229, 2, 1>>, <<1232, 1326, 2, 1>>, <<1329, 1366, 1, 48>>,
      <<4256, 4293, 1, 7264>>, <<4295, 4295, 1, 7264>>,
      <<4301, 4301, 1, 7264>>, <<5024, 5103, 1, 38864>>, <<5104, 5109, 1, 8>>,
      <<7312, 7354, 1, -3008>>, <<7357, 7359, 1, -3008>>,
      <<7680, 7828, 2, 1>>, <<7838, 7838, 1, -7615>>, <<7840, 7934, 2, 1>>,
      <<7944, 7951, 1, -8>>, <<7960, 7965, 1, -8>>, <<7976, 7983, 1, -8>>,
      <<7992, 7999, 1, -8>>, <<8008, 8013, 1, -8>>, <<8025, 8031, 2, -8>>,
      <<8040, 8047, 1, -8>>, <<8072, 8079, 1, -8>>, <<8088, 8095, 1, -8>>,
      <<8104, 8111, 1, -8>>, <<8120, 8121, 1, -8>>, <<8122, 8123, 1, -74>>,
      <<8124, 8124, 1, -9>>, <<8136, 8139, 1, -86>>, <<8140, 8140, 1, -9>>,
      <<8152, 8153, 1, -8>>, <<8154, 8155, 1, -100>>, <<8168, 8169, 1, -8>>,
      <<8170, 8171, 1, -112>>, <<8172, 8172, 1, -7>>, <<8184, 8185, 1, -128>>,
      <<8186, 8187, 1, -126>>, <<8188, 8188, 1, -9>>,
      <<8486, 8486, 1, -7517>>, <<8490, 8490, 1, -8383>>,
      <<8491, 8491, 1, -8262>>, <<8498, 8498, 1, 28>>, <<8544, 8559, 1, 16>>,
      <<8579, 8579, 1, 1>>, <<9398, 9423, 1, 26>>, <<11264, 11311, 1, 48>>,
      <<11360, 11360, 1, 1>>, <<11362, 11362, 1, -10743>>,
      <<11363, 11363, 1, -3814>>, <<11364, 11364, 1, -10727>>,
      <<11367, 11371, 2, 1>>, <<11373, 11373, 1, -10780>>,
      <<11374, 11374, 1, -10749>>, <<11375, 11375, 1, -10783>>,
      <<11376, 11376, 1, -10782>>, <<11378, 11378, 1, 1>>,
      <<11381, 11381, 1, 1>>, <<11390, 11391, 1, -10815>>,
      <<11392, 11490, 2, 1>>, <<11499, 11501, 2, 1>>, <<11506, 11506, 1, 1>>,
      <<42560, 42604, 2, 1>>, <<42624, 42650, 2, 1>>, <<42786, 42798, 2, 1>>,
      <<42802, 42862, 2, 1>>, <<42873, 42875, 2, 1>>,
      <<42877, 42877, 1, -35332>>, <<42878, 42886, 2, 1>>,
      <<42891, 42891, 1, 1>>, <<42893, 42893, 1, -42280>>,
      <<42896, 42898, 2, 1>>, <<42902, 42920, 2, 1>>,
      <<42922, 42922, 1, -42308>>, <<42923, 42923, 1, -42319>>,
      <<42924, 42924, 1, -42315>>, <<42925, 42925, 1, -42305>>,
      <<42926, 42926, 1, -42308>>, <<42928, 42928, 1, -42258>>,
      <<42929, 42929, 1, -42282>>, <<42930, 42930, 1, -42261>>,
      <<42931, 42931, 1, 928>>, <<42932, 42946, 2, 1>>,
      <<42948, 42948, 1, -48>>, <<42949, 42949, 1, -42307>>,
      <<42950, 42950, 1, -35384>>, <<42951, 42953, 2, 1>>,
      <<42960, 42960, 1, 1>>, <<42966, 42968, 2, 1>>, <<42997, 42997, 1, 1>>,
      <<65313, 65338, 1, 32>>, <<66560, 66599, 1, 40>>,
      <<66736, 66771, 1, 40>>, <<66928, 66938, 1, 39>>,
      <<66940, 66954, 1, 39>>, <<66956, 66962, 1, 39>>,
      <<66964, 66965, 1, 39>>, <<68736, 68786, 1, 64>>,
      <<71840, 71871, 1, 32>>, <<93760, 93791, 1, 32>>,
      <<125184, 125217, 1, 34>>>>

\* The ranges of code points with a lower-case or an upper-case mapping (the
\* regex compiler's iscased).
SRE_CASED_RANGES ==
    <<<<65, 90>>, <<97, 122>>, <<181, 181>>, <<192, 214>>, <<216, 246>>,
      <<248, 311>>, <<313, 396>>, <<398, 410>>, <<412, 425>>, <<428, 441>>,
      <<444, 445>>, <<447, 447>>, <<452, 544>>, <<546, 563>>, <<570, 596>>,
      <<598, 599>>, <<601, 601>>, <<603, 604>>, <<608, 609>>, <<611, 611>>,
      <<613, 614>>, <<616, 620>>, <<623, 623>>, <<625, 626>>, <<629, 629>>,
      <<637, 637>>, <<640, 640>>, <<642, 643>>, <<647, 652>>, <<658, 658>>,
      <<669, 670>>, <<837, 837>>, <<880, 883>>, <<886, 887>>, <<891, 893>>,
      <<895, 895>>, <<902, 902>>, <<904, 906>>, <<908, 908>>, <<910, 929>>,
      <<931, 977>>, <<981, 1013>>, <<1015, 1019>>, <<1021, 1153>>,
      <<1162, 1327>>, <<1329, 1366>>, <<1377, 1415>>, <<4256, 4293>>,
      <<4295, 4295>>, <<4301, 4301>>, <<4304, 4346>>, <<4349, 4351>>,
      <<5024, 5109>>, <<5112, 5117>>, <<7296, 7304>>, <<7312, 7354>>,
      <<7357, 7359>>, <<7545, 7545>>, <<7549, 7549>>, <<7566, 7566>>,
      <<7680, 7835>>, <<7838, 7838>>, <<7840, 7957>>, <<7960, 7965>>,
      <<7968, 8005>>, <<8008, 8013>>, <<8016, 8023>>, <<8025, 8025>>,
      <<8027, 8027>>, <<8029, 8029>>, <<8031, 8061>>, <<8064, 8116>>,
      <<8118, 8124>>, <<8126, 8126>>, <<8130, 8132>>, <<8134, 8140>>,
      <<8144, 8147>>, <<8150, 8155>>, <<8160, 8172>>, <<8178, 8180>>,
      <<8182, 8188>>, <<8486, 8486>>, <<8490, 8491>>, <<8498, 8498>>,
      <<8526, 8526>>, <<8544, 8575>>, <<8579, 8580>>, <<9398, 9449>>,
      <<11264, 11376>>, <<11378, 11379>>, <<11381, 11382>>, <<11390, 11491>>,
      <<11499, 11502>>, <<11506, 11507>>, <<11520, 11557>>, <<11559, 11559>>,
      <<11565, 11565>>, <<42560, 42605>>, <<42624, 42651>>, <<42786, 42799>>,
      <<42802, 42863>>, <<42873, 42887>>, <<42891, 42893>>, <<42896, 42900>>,
      <<42902, 42926>>, <<42928, 42954>>, <<42960, 42961>>, <<42966, 42969>>,
      <<42997, 42998>>, <<43859, 43859>>, <<43888, 43967>>, <<64256, 64262>>,
      <<64275, 64279>>, <<65313, 65338>>, <<65345, 65370>>, <<66560, 66639>>,
      <<66736, 66771>>, <<66776, 66811>>, <<66928, 66938>>, <<66940, 66954>>,
      <<66956, 66962>>, <<66964, 66965>>, <<66967, 66977>>, <<66979, 66993>>,
      <<66995, 67001>>, <<67003, 67004>>, <<68736, 68786>>, <<68800, 68850>>,
      <<71840, 71903>>, <<93760, 93823>>, <<125184, 125251>>>>

\* The regex compiler's extra cases: lower-case code point -> the other code
\* points a literal of it accepts under re.IGNORECASE.
EXTRA_CASES ==
    (105 :> {305}) @@ (115 :> {383}) @@ (181 :> {956}) @@ (305 :> {105}) @@
    (383 :> {115}) @@ (837 :> {953, 8126}) @@ (912 :> {8147}) @@ (944 :> {8163}) @@
    (946 :> {976}) @@ (949 :> {1013}) @@ (952 :> {977}) @@ (953 :> {837, 8126}) @@
    (954 :> {1008}) @@ (956 :> {181}) @@ (960 :> {982}) @@ (961 :> {1009}) @@
    (962 :> {963}) @@ (963 :> {962}) @@ (966 :> {981}) @@ (976 :> {946}) @@
    (977 :> {952}) @@ (981 :> {966}) @@ (982 :> {960}) @@ (1008 :> {954}) @@
    (1009 :> {961}) @@ (1013 :> {949}) @@ (1074 :> {7296}) @@ (1076 :> {7297}) @@
    (1086 :> {7298}) @@ (1089 :> {7299}) @@ (1090 :> {7300, 7301}) @@
    (1098 :> {7302}) @@ (1123 :> {7303}) @@ (7296 :> {1074}) @@ (7297 :> {1076}) @@
    (7298 :> {1086}) @@ (7299 :> {1089}) @@ (7300 :> {1090, 7301}) @@
    (7301 :> {1090, 7300}) @@ (7302 :> {1098}) @@ (7303 :> {1123}) @@
    (7304 :> {42571}) @@ (7777 :> {7835}) @@ (7835 :> {7777}) @@
    (8126 :> {837, 953}) @@ (8147 :> {912}) @@ (8163 :> {944}) @@ (42571 :> {7304}) @@
    (64261 :> {64262}) @@ (64262 :> {64261})

\* The ranges of the case-ignorable code points, which the final-sigma rule of
\* str.lower() looks through.
CASE_IGNORABLE_RANGES ==
    <<<<39, 39>>, <<46, 46>>, <<58, 58>>, <<94, 94>>, <<96, 96>>,
      <<168, 168>>, <<173, 173>>, <<175, 175>>, <<180, 180>>, <<183, 184>>,
      <<688, 879>>, <<884, 885>>, <<890, 890>>, <<900, 901>>, <<903, 903>>,
      <<1155, 1161>>, <<1369, 1369>>, <<1375, 1375>>, <<1425, 1469>>,
      <<1471, 1471>>, <<1473, 1474>>, <<1476, 1477>>, <<1479, 1479>>,
      <<1524, 1524>>, <<1536, 1541>>, <<1552, 1562>>, <<1564, 1564>>,
      <<1600, 1600>>, <<1611, 1631>>, <<1648, 1648>>, <<1750, 1757>>,
      <<1759, 1768>>, <<1770, 1773>>, <<1807, 1807>>, <<1809, 1809>>,
      <<1840, 1866>>, <<1958, 1968>>, <<2027, 2037>>, <<2042, 2042>>,
      <<2045, 2045>>, <<2070, 2093>>, <<2137, 2139>>, <<2184, 2184>>,
      <<2192, 2193>>, <<2200, 2207>>, <<2249, 2306>>, <<2362, 2362>>,
      <<2364, 2364>>, <<2369, 2376>>, <<2381, 2381>>, <<2385, 2391>>,
      <<2402, 2403>>, <<2417, 2417>>, <<2433, 2433>>, <<2492, 2492>>,
      <<2497, 2500>>, <<2509, 2509>>, <<2530, 2531>>, <<2558, 2558>>,
      <<2561, 2562>>, <<2620, 2620>>, <<2625, 2626>>, <<2631, 2632>>,
      <<2635, 2637>>, <<2641, 2641>>, <<2672, 2673>>, <<2677, 2677>>,
      <<2689, 2690>>, <<2748, 2748>>, <<2753, 2757>>, <<2759, 2760>>,
      <<2765, 2765>>, <<2786, 2787>>, <<2810, 2815>>, <<2817, 2817>>,
      <<2876, 2876>>, <<2879, 2879>>, <<2881, 2884>>, <<2893, 2893>>,
      <<2901, 2902>>, <<2914, 2915>>, <<2946, 2946>>, <<3008, 3008>>,
      <<3021, 3021>>, <<3072, 3072>>, <<3076, 3076>>, <<3132, 3132>>,
      <<3134, 3136>>, <<3142, 3144>>, <<3146, 3149>>, <<3157, 3158>>,
      <<3170, 3171>>, <<3201, 3201>>, <<3260, 3260>>, <<3263, 3263>>,
      <<3270, 3270>>, <<3276, 3277>>, <<3298, 3299>>, <<3328, 3329>>,
      <<3387, 3388>>, <<3393, 3396>>, <<3405, 3405>>, <<3426, 3427>>,
      <<3457, 3457>>, <<3530, 3530>>, <<3538, 3540>>, <<3542, 3542>>,
      <<3633, 3633>>, <<3636, 3642>>, <<3654, 3662>>, <<3761, 3761>>,
      <<3764, 3772>>, <<3782, 3782>>, <<3784, 3789>>, <<3864, 3865>>,
      <<3893, 3893>>, <<3895, 3895>>, <<3897, 3897>>, <<3953, 3966>>,
      <<3968, 3972>>, <<3974, 3975>>, <<3981, 3991>>, <<3993, 4028>>,
      <<4038, 4038>>, <<4141, 4144>>, <<4146, 4151>>, <<4153, 4154>>,
      <<4157, 4158>>, <<4184, 4185>>, <<4190, 4192>>, <<4209, 4212>>,
      <<4226, 4226>>, <<4229, 4230>>, <<4237, 4237>>, <<4253, 4253>>,
      <<4348, 4348>>, <<4957, 4959>>, <<5906, 5908>>, <<5938, 5939>>,
      <<5970, 5971>>, <<6002, 6003>>, <<6068, 6069>>, <<6071, 6077>>,
      <<6086, 6086>>, <<6089, 6099>>, <<6103, 6103>>, <<6109, 6109>>,
      <<6155, 6159>>, <<6211, 6211>>, <<6277, 6278>>, <<6313, 6313>>,
      <<6432, 6434>>, <<6439, 6440>>, <<6450, 6450>>, <<6457, 6459>>,
      <<6679, 6680>>, <<6683, 6683>>, <<6742, 6742>>, <<6744, 6750>>,
      <<6752, 6752>>, <<6754, 6754>>, <<6757, 6764>>, <<6771, 6780>>,
      <<6783, 6783>>, <<6823, 6823>>, <<6832, 6862>>, <<6912, 6915>>,
      <<6964, 6964>>, <<6966, 6970>>, <<6972, 6972>>, <<6978, 6978>>,
      <<7019, 7027>>, <<7040, 7041>>, <<7074, 7077>>, <<7080, 7081>>,
      <<7083, 7085>>, <<7142, 7142>>, <<7144, 7145>>, <<7149, 7149>>,
      <<7151, 7153>>, <<7212, 7219>>, <<7222, 7223>>, <<7288, 7293>>,
      <<7376, 7378>>, <<7380, 7392>>, <<7394, 7400>>, <<7405, 7405>>,
      <<7412, 7412>>, <<7416, 7417>>, <<7468, 7530>>, <<7544, 7544>>,
      <<7579, 7679>>, <<8125, 8125>>, <<8127, 8129>>, <<8141, 8143>>,
      <<8157, 8159>>, <<8173, 8175>>, <<8189, 8190>>, <<8203, 8207>>,
      <<8216, 8217>>, <<8228, 8228>>, <<8231, 8231>>, <<8234, 8238>>,
      <<8288, 8292>>, <<8294, 8303>>, <<8305, 8305>>, <<8319, 8319>>,
      <<8336, 8348>>, <<8400, 8432>>, <<11388, 11389>>, <<11503, 11505>>,
      <<11631, 11631>>, <<11647, 11647>>, <<11744, 11775>>, <<11823, 11823>>,
      <<12293, 12293>>, <<12330, 12333>>, <<12337, 12341>>, <<12347, 12347>>,
      <<12441, 12446>>, <<12540, 12542>>, <<40981, 40981>>, <<42232, 42237>>,
      <<42508, 42508>>, <<42607, 42610>>, <<42612, 42621>>, <<42623, 42623>>,
      <<42652, 42655>>, <<42736, 42737>>, <<42752, 42785>>, <<42864, 42864>>,
      <<42888, 42890>>, <<42994, 42996>>, <<43000, 43001>>, <<43010, 43010>>,
      <<43014, 43014>>, <<43019, 43019>>, <<43045, 43046>>, <<43052, 43052>>,
      <<43204, 43205>>, <<43232, 43249>>, <<43263, 43263>>, <<43302, 43309>>,
      <<43335, 43345>>, <<43392, 43394>>, <<43443, 43443>>, <<43446, 43449>>,
      <<43452, 43453>>, <<43471, 43471>>, <<43493, 43494>>, <<43561, 43566>>,
      <<43569, 43570>>, <<43573, 43574>>, <<43587, 43587>>, <<43596, 43596>>,
      <<43632, 43632>>, <<43644, 43644>>, <<43696, 43696>>, <<43698, 43700>>,
      <<43703, 43704>>, <<43710, 43711>>, <<43713, 43713>>, <<43741, 43741>>,
      <<43756, 43757>>, <<43763, 43764>>, <<43766, 43766>>, <<43867, 43871>>,
      <<43881, 43883>>, <<44005, 44005>>, <<44008, 44008>>, <<44013, 44013>>,
      <<64286, 64286>>, <<64434, 64450>>, <<65024, 65039>>, <<65043, 65043>>,
      <<65056, 65071>>, <<65106, 65106>>, <<65109, 65109>>, <<65279, 65279>>,
      <<65287, 65287>>, <<65294, 65294>>, <<65306, 65306>>, <<65342, 65342>>,
      <<65344, 65344>>, <<65392, 65392>>, <<65438, 65439>>, <<65507, 65507>>,
      <<65529, 65531>>, <<66045, 66045>>, <<66272, 66272>>, <<66422, 66426>>,
      <<67456, 67461>>, <<67463, 67504>>, <<67506, 67514>>, <<68097, 68099>>,
      <<68101, 68102>>, <<68108, 68111>>, <<68152, 68154>>, <<68159, 68159>>,
      <<68325, 68326>>, <<68900, 68903>>, <<69291, 69292>>, <<69446, 69456>>,
      <<69506, 69509>>, <<69633, 69633>>, <<69688, 69702>>, <<69744, 69744>>,
      <<69747, 69748>>, <<69759, 69761>>, <<69811, 69814>>, <<69817, 69818>>,
      <<69821, 69821>>, <<69826, 69826>>, <<69837, 69837>>, <<69888, 69890>>,
      <<69927, 69931>>, <<69933, 69940>>, <<70003, 70003>>, <<70016, 70017>>,
      <<70070, 70078>>, <<70089, 70092>>, <<70095, 70095>>, <<70191, 70193>>,
      <<70196, 70196>>, <<70198, 70199>>, <<70206, 70206>>, <<70367, 70367>>,
      <<70371, 70378>>, <<70400, 70401>>, <<70459, 70460>>, <<70464, 70464>>,
      <<70502, 70508>>, <<70512, 70516>>, <<70712, 70719>>, <<70722, 70724>>,
      <<70726, 70726>>, <<70750, 70750>>, <<70835, 70840>>, <<70842, 70842>>,
      <<70847, 70848>>, <<70850, 70851>>, <<71090, 71093>>, <<71100, 71101>>,
      <<71103, 71104>>, <<71132, 71133>>, <<71219, 71226>>, <<71229, 71229>>,
      <<71231, 71232>>, <<71339, 71339>>, <<71341, 71341>>, <<71344, 71349>>,
      <<71351, 71351>>, <<71453, 71455>>, <<71458, 71461>>, <<71463, 71467>>,
      <<71727, 71735>>, <<71737, 71738>>, <<71995, 71996>>, <<71998, 71998>>,
      <<72003, 72003>>, <<72148, 72151>>, <<72154, 72155>>, <<72160, 72160>>,
      <<72193, 72202>>, <<72243, 72248>>, <<72251, 72254>>, <<72263, 72263>>,
      <<72273, 72278>>, <<72281, 72283>>, <<72330, 72342>>, <<72344, 72345>>,
      <<72752, 72758>>, <<72760, 72765>>, <<72767, 72767>>, <<72850, 72871>>,
      <<72874, 72880>>, <<72882, 72883>>, <<72885, 72886>>, <<73009, 73014>>,
      <<73018, 73018>>, <<73020, 73021>>, <<73023, 73029>>, <<73031, 73031>>,
      <<73104, 73105>>, <<73109, 73109>>, <<73111, 73111>>, <<73459, 73460>>,
      <<78896, 78904>>, <<92912, 92916>>, <<92976, 92982>>, <<92992, 92995>>,
      <<94031, 94031>>, <<94095, 94111>>, <<94176, 94177>>, <<94179, 94180>>,
      <<110576, 110579>>, <<110581, 110587>>, <<110589, 110590>>,
      <<113821, 113822>>, <<113824, 113827>>, <<118528, 118573>>,
      <<118576, 118598>>, <<119143, 119145>>, <<119155, 119170>>,
      <<119173, 119179>>, <<119210, 119213>>, <<119362, 119364>>,
      <<121344, 121398>>, <<121403, 121452>>, <<121461, 121461>>,
      <<121476, 121476>>, <<121499, 121503>>, <<121505, 121519>>,
      <<122880, 122886>>, <<122888, 122904>>, <<122907, 122913>>,
      <<122915, 122916>>, <<122918, 122922>>, <<123184, 123197>>,
      <<123566, 123566>>, <<123628, 123631>>, <<125136, 125142>>,
      <<125252, 125259>>, <<127995, 127999>>, <<917505, 917505>>,
      <<917536, 917631>>, <<917760, 917999>>>>

\* The ranges of the cased code points among those that are not case-ignorable.
CASED_RANGES ==
    <<<<65, 90>>, <<97, 122>>, <<170, 170>>, <<181, 181>>, <<186, 186>>,
      <<192, 214>>, <<216, 246>>, <<248, 442>>, <<444, 447>>, <<452, 659>>,
      <<661, 687>>, <<880, 883>>, <<886, 887>>, <<891, 893>>, <<895, 895>>,
      <<902, 902>>, <<904, 906>>, <<908, 908>>, <<910, 929>>, <<931, 1013>>,
      <<1015, 1153>>, <<1162, 1327>>, <<1329, 1366>>, <<1376, 1416>>,
      <<4256, 4293>>, <<4295, 4295>>, <<4301, 4301>>, <<4304, 4346>>,
      <<4349, 4351>>, <<5024, 5109>>, <<5112, 5117>>, <<7296, 7304>>,
      <<7312, 7354>>, <<7357, 7359>>, <<7424, 7467>>, <<7531, 7543>>,
      <<7545, 7578>>, <<7680, 7957>>, <<7960, 7965>>, <<7968, 8005>>,
      <<8008, 8013>>, <<8016, 8023>>, <<8025, 8025>>, <<8027, 8027>>,
      <<8029, 8029>>, <<8031, 8061>>, <<8064, 8116>>, <<8118, 8124>>,
      <<8126, 8126>>, <<8130, 8132>>, <<8134, 8140>>, <<8144, 8147>>,
      <<8150, 8155>>, <<8160, 8172>>, <<8178, 8180>>, <<8182, 8188>>,
      <<8450, 8450>>, <<8455, 8455>>, <<8458, 8467>>, <<8469, 8469>>,
      <<8473, 8477>>, <<8484, 8484>>, <<8486, 8486>>, <<8488, 8488>>,
      <<8490, 8493>>, <<8495, 8500>>, <<8505, 8505>>, <<8508, 8511>>,
      <<8517, 8521>>, <<8526, 8526>>, <<8544, 8575>>, <<8579, 8580>>,
      <<9398, 9449>>, <<11264, 11387>>, <<11390, 11492>>, <<11499, 11502>>,
      <<11506, 11507>>, <<11520, 11557>>, <<11559, 11559>>, <<11565, 11565>>,
      <<42560, 42605>>, <<42624, 42651>>, <<42786, 42863>>, <<42865, 42887>>,
      <<42891, 42894>>, <<42896, 42954>>, <<42960, 42961>>, <<42963, 42963>>,
      <<42965, 42969>>, <<42997, 42998>>, <<43002, 43002>>, <<43824, 43866>>,
      <<43872, 43880>>, <<43888, 43967>>, <<64256, 64262>>, <<64275, 64279>>,
      <<65313, 65338>>, <<65345, 65370>>, <<66560, 66639>>, <<66736, 66771>>,
      <<66776, 66811>>, <<66928, 66938>>, <<66940, 66954>>, <<66956, 66962>>,
      <<66964, 66965>>, <<66967, 66977>>, <<66979, 66993>>, <<66995, 67001>>,
      <<67003, 67004>>, <<68736, 68786>>, <<68800, 68850>>, <<71840, 71903>>,
      <<93760, 93823>>, <<119808, 119892>>, <<119894, 119964>>,
      <<119966, 119967>>, <<119970, 119970>>, <<119973, 119974>>,
      <<119977, 119980>>, <<119982, 119993>>, <<119995, 119995>>,
      <<119997, 120003>>, <<120005, 120069>>, <<120071, 120074>>,
      <<120077, 120084>>, <<120086, 120092>>, <<120094, 120121>>,
      <<120123, 120126>>, <<120128, 120132>>, <<120134, 120134>>,
      <<120138, 120144>>, <<120146, 120485>>, <<120488, 120512>>,
      <<120514, 120538>>, <<120540, 120570>>, <<120572, 120596>>,
      <<120598, 120628>>, <<120630, 120654>>, <<120656, 120686>>,
      <<120688, 120712>>, <<120714, 120744>>, <<120746, 120770>>,
      <<120772, 120779>>, <<122624, 122633>>, <<122635, 122654>>,
      <<125184, 125251>>, <<127280, 127305>>, <<127312, 127337>>,
      <<127344, 127369>>>>

\* Py_UNICODE_TOLOWER: the lower-case mapping of one code point to one code point.
ToLowerCode(n) ==
    IF n < 128 THEN (IF 65 <= n /\ n <= 90 THEN n + 32 ELSE n)
    ELSE LET hits == {i \in 1..Len(LOWER_ROWS) :
                         /\ LOWER_ROWS[i][1] <= n /\ n <= LOWER_ROWS[i][2]
                         /\ (n - LOWER_ROWS[i][1]) % LOWER_ROWS[i][3] = 0}
         IN  IF hits = {} THEN n ELSE n + LOWER_ROWS[CHOOSE i \in hits : TRUE][4]

IsCaseIgnorable(c) == \E n \in {Ord(c)} : InRanges(n, CASE_IGNORABLE_RANGES)

\* Asked of characters that are not case-ignorable.
IsCased(c) ==
    \E n \in {Ord(c)} :
        IF n < 128 THEN (65 <= n /\ n <= 90) \/ (97 <= n /\ n <= 122)
        ELSE InRanges(n, CASED_RANGES)

RECURSIVE BackOverIgnorable(_, _)
\* The greatest index <= j of a character that is not case-ignorable, 0 when
\* there is none.
BackOverIgnorable(s, j) ==
    IF j >= 1 /\ IsCaseIgnorable(s[j]) THEN BackOverIgnorable(s, j - 1) ELSE j

RECURSIVE OverIgnorable(_, _)
\* The least index >= j of a character that is not case-ignorable, Len(s) + 1
\* when there is none.
OverIgnorable(s, j) ==
    IF j <= Len(s) /\ IsCaseIgnorable(s[j]) THEN OverIgnorable(s, j + 1) ELSE j

\* The capital sigma s[i] ends a word: a cased letter comes before it and none
\* after it, case-ignorable characters looked through.
FinalSigma(s, i) ==
    /\ \E b \in {BackOverIgnorable(s, i - 1)} : b >= 1 /\ IsCased(s[b])
    /\ \E f \in {OverIgnorable(s, i + 1)} : f > Len(s) \/ ~IsCased(s[f])

\* The code points str.lower() gives for s[i], whose code point is n: one,
\* or two for the capital I with a dot above (U+0130).
LowerCodesAt(s, i, n) ==
    IF n = 304 THEN <<105, 775>>
    ELSE IF n = 931 THEN (IF FinalSigma(s, i) THEN <<962>> ELSE <<963>>)
    ELSE <<ToLowerCode(n)>>

\* What str.lower() makes of s[i]; a character it does not change is kept as written.
LowerAt(s, i) ==
    CHOOSE r \in UNION {{IF codes = <<n>> THEN <<s[i]>>
                          ELSE [k \in 1..Len(codes) |-> Chr(codes[k])] :
                              codes \in {LowerCodesAt(s, i, n)}} :
                         n \in {Ord(s[i])}} : TRUE

RECURSIVE LowerFrom(_, _)
LowerFrom(s, i) == IF i > Len(s) THEN <<>> ELSE LowerAt(s, i) \o LowerFrom(s, i + 1)

\* str.lower()
Lower(s) == LowerFrom(s, 1)

\* str.lower() of the one-character text c: a text of one or two characters.
LowerChar(c) == Lower(<<c>>)

\* The regex compiler's iscased.
IsSreCased(n) ==
    IF n < 128 THEN (65 <= n /\ n <= 90) \/ (97 <= n /\ n <= 122)
    ELSE InRanges(n, SRE_CASED_RANGES)

\* The code points a literal accepts, after lower-casing, when its own lower
\* case is lo.
FoldCodes(lo) == IF lo \in DOMAIN EXTRA_CASES THEN {lo} \cup EXTRA_CASES[lo] ELSE {lo}

\* A literal character p of a pattern compiled with re.IGNORECASE, tried on
\* the character t: a literal without case accepts itself only, any other
\* accepts the characters whose lower case is its own or one of its extra cases.
FoldChar(p, t) ==
    \E a \in {Ord(p)}, b \in {Ord(t)} :
        IF ~IsSreCased(a) THEN a = b
        ELSE ToLowerCode(b) \in FoldCodes(ToLowerCode(a))

\* str.isspace() / the regex class \s.
IsSpace(c) == Ord(c) \in SPACE_CODES

\* The characters str.splitlines() breaks at ("\r\n" is one break).
IsLineBreak(c) == Ord(c) \in LINE_BREAK_CODES

\* The regex class \d.
IsDigit(c) ==
    \E n \in {Ord(c)} :
        IF n < 128 THEN 48 <= n /\ n <= 57
        ELSE \E z \in DIGIT_ZEROS : z <= n /\ n <= z + 9

RECURSIVE LStripFrom(_, _)
LStripFrom(s, i) ==
    IF i <= Len(s) /\ IsSpace(s[i]) THEN LStripFrom(s, i + 1) ELSE i

RECURSIVE RStripFrom(_, _)
RStripFrom(s, j) ==
    IF j >= 1 /\ IsSpace(s[j]) THEN RStripFrom(s, j - 1) ELSE j

\* str.strip()
Strip(s) ==
    LET i == LStripFrom(s, 1)
        j == RStripFrom(s, Len(s))
    IN  IF i > j THEN <<>> ELSE SubSeq(s, i, j)

\* The first index >= i of a line break, Len(s) + 1 when there is none.
NextBreak(s, i) ==
    LET breaks == {j \in i..Len(s) : IsLineBreak(s[j])}
    IN  IF breaks = {} THEN Len(s) + 1
        ELSE CHOOSE j \in breaks : \A k \in breaks : j <= k

RECURSIVE SplitFrom(_, _)
SplitFrom(s, i) ==
    IF i > Len(s) THEN <<>>
    ELSE LET b == NextBreak(s, i)
             w == IF b < Len(s) /\ s[b] = "\r" /\ s[b + 1] = "\n" THEN 2 ELSE 1
         IN  <<SubSeq(s, i, b - 1)>> \o SplitFrom(s, b + w)

\* str.splitlines()
SplitLines(s) == SplitFrom(s, 1)

RECURSIVE JoinFrom(_, _)
JoinFrom(ls, i) ==
    IF i > Len(ls) THEN <<>>
    ELSE IF i = Len(ls) THEN ls[i]
    ELSE ls[i] \o <<"\n">> \o JoinFrom(ls, i + 1)

\* "\n".join(lines)
JoinLines(ls) == JoinFrom(ls, 1)

RECURSIVE RStripCRLFFrom(_, _)
RStripCRLFFrom(s, j) ==
    IF j >= 1 /\ s[j] \in {"\r", "\n"} THEN RStripCRLFFrom(s, j - 1) ELSE j

\* line.rstrip("\r\n")
RStripCRLF(s) == SubSeq(s, 1, RStripCRLFFrom(s, Len(s)))

(***************************************************************************)
(* extract_case_entries.py: the patterns                                   *)
(***************************************************************************)
DEFAULT_QUESTION_KEYWORD == <<"Q", "U", "E", "S", "T", "I", "O", "N">>
DEFAULT_ANSWER_KEYWORD == <<"A", "N", "S", "W", "E", "R">>

\* normalize_keywords of the defaults: one keyword per list.
question_keywords == <<DEFAULT_QUESTION_KEYWORD>>
answer_keywords == <<DEFAULT_ANSWER_KEYWORD>>
type_keywords == question_keywords \o answer_keywords

\* The regex `$` at position p of s: the end of the text, or just before a
\* line feed that ends the text.
AtEnd(s, p) == p = Len(s) + 1 \/ (p = Len(s) /\ s[p] = "\n")

\* separator_re.match(line), DEFAULT_SEPARATOR_PATTERN ^U+30FC+$
IsSeparator(line) ==
    \E e \in {Len(line), Len(line) + 1} :
        /\ e >= 2
        /\ AtEnd(line, e)
        /\ \A i \in 1..(e - 1) : line[i] = CHOON

DigitsAt(s, p, n) ==
    /\ p + n - 1 <= Len(s)
    /\ \A k \in 0..(n - 1) : IsDigit(s[p + k])

CharAt(s, p, c) == p <= Len(s) /\ s[p] = c

RECURSIVE SpaceRunEnd(_, _)
SpaceRunEnd(s, p) ==
    IF p <= Len(s) /\ IsSpace(s[p]) THEN SpaceRunEnd(s, p + 1) ELSE p

\* DEFAULT_HEADER_DATE_PATTERN \d{4}/\d{2}/\d{2}\s+\d{2}:\d{2} matched at p:
\* the index just after the match, 0 when it does not match there.
DateEndAt(s, p) ==
    IF /\ DigitsAt(s, p, 4) /\ CharAt(s, p + 4, "/")
       /\ DigitsAt(s, p + 5, 2) /\ CharAt(s, p + 7, "/")
       /\ DigitsAt(s, p + 8, 2)
       /\ p + 10 <= Len(s) /\ IsSpace(s[p + 10])
    THEN LET t == SpaceRunEnd(s, p + 10)
         IN  IF DigitsAt(s, t, 2) /\ CharAt(s, t + 2, ":") /\ DigitsAt(s, t + 3, 2)
             THEN t + 5 ELSE 0
    ELSE 0

\* A keyword matched at q under re.IGNORECASE.
KeywordAt(s, q, kw) ==
    /\ q + Len(kw) - 1 <= Len(s)
    /\ \A k \in 1..Len(kw) : FoldChar(kw[k], s[q + k - 1])

AnyKeywordAt(s, q, keywords) ==
    \E n \in 1..Len(keywords) : KeywordAt(s, q, keywords[n])

\* The `.*?` of header_re between the end e of the date and a keyword at q:
\* the pattern is compiled without re.DOTALL, so it takes no line feed.
AnyRunTo(s, e, q) == \A k \in e..(q - 1) : s[k] # "\n"

\* header_re.search(s) for the pattern build_patterns makes of a list of
\* keywords: the leftmost date followed (lazily, on the same line) by the
\* first type keyword.  [ok, date, type] with type the matched text.  Of no
\* keyword at all the type pattern is empty, and matches where the date ends.
HeaderSearchFor(s, keywords) ==
    LET KeywordsFrom(e) == IF keywords = <<>> THEN {e}
                           ELSE {q \in e..Len(s) :
                                    AnyKeywordAt(s, q, keywords) /\ AnyRunTo(s, e, q)}
        starts == {p \in 1..Len(s) :
                      DateEndAt(s, p) # 0 /\ KeywordsFrom(DateEndAt(s, p)) # {}}
    IN  IF starts = {} THEN [ok |-> FALSE, date |-> <<>>, type |-> <<>>]
        ELSE LET p == CHOOSE x \in starts : \A y \in starts : x <= y
                 e == DateEndAt(s, p)
                 q == CHOOSE x \in KeywordsFrom(e) : \A y \in KeywordsFrom(e) : x <= y
                 n == CHOOSE x \in 1..Len(keywords) :
                         /\ KeywordAt(s, q, keywords[x])
                         /\ \A y \in 1..Len(keywords) :
                               KeywordAt(s, q, keywords[y]) => x <= y
             IN  [ok |-> TRUE,
                  date |-> SubSeq(s, p, e - 1),
                  type |-> IF keywords = <<>> THEN <<>>
                           ELSE SubSeq(s, q, q + Len(keywords[n]) - 1)]

\* header_re.search(s) with the default keywords.
HeaderSearch(s) == HeaderSearchFor(s, type_keywords)

\* header.replace("　", " ")
NormalizeHeader(s) == [i \in 1..Len(s) |-> IF s[i] = IDEOSPACE THEN " " ELSE s[i]]

\* A variant of the decision that looks through the Answer keywords first.
ClassifyTypeAnswerFirst(entry_type_raw, question_keyword, answer_keyword) ==
    IF \E n \in 1..Len(answer_keyword) : Lower(entry_type_raw) = Lower(answer_keyword[n])
    THEN "Answer"
    ELSE IF \E n \in 1..Len(question_keyword) :
                Lower(entry_type_raw) = Lower(question_keyword[n])
    THEN "Question"
    ELSE "Unknown"

\* The Question / Answer / Unknown decision of parse_entries.
ClassifyType(entry_type_raw, question_keyword, answer_keyword) ==
    IF \E n \in 1..Len(question_keyword) :
           Lower(entry_type_raw) = Lower(question_keyword[n])
    THEN "Question"
    ELSE IF \E n \in 1..Len(answer_keyword) :
                Lower(entry_type_raw) = Lower(answer_keyword[n])
    THEN "Answer"
    ELSE "Unknown"

\* The decision with the default keywords.
EntryType(raw) == ClassifyType(raw, question_keywords, answer_keywords)

(***************************************************************************)
(* extract_case_entries.py: parse_entries                                  *)
(***************************************************************************)
RECURSIVE NextSeparator(_, _)
\* The first index >= i of a separator line, Len(lines) + 1 when there is none.
NextSeparator(lines, i) ==
    IF i > Len(lines) \/ IsSeparator(lines[i]) THEN i ELSE NextSeparator(lines, i + 1)

RECURSIVE SkipBlank(_, _)
SkipBlank(lines, i) ==
    IF i <= Len(lines) /\ lines[i] = <<>> THEN SkipBlank(lines, i + 1) ELSE i

RECURSIVE ParseFromDiscarding(_, _)
\* A variant of the loop that gives up a record whose body reaches the end of
\* the input without a closing separator.
ParseFromDiscarding(lines, i) ==
    IF i > Len(lines) THEN <<>>
    ELSE IF ~IsSeparator(lines[i]) THEN ParseFromDiscarding(lines, i + 1)
    ELSE LET h == SkipBlank(lines, i + 1)
         IN  IF h > Len(lines) THEN <<>>
             ELSE LET m == HeaderSearch(NormalizeHeader(lines[h]))
                      d == NextSeparator(lines, h + 1)
                  IN  IF d > Len(lines) THEN <<>>
                      ELSE LET c == NextSeparator(lines, d + 1)
                               content_lines == SubSeq(lines, d + 1, c - 1)
                           IN  IF c > Len(lines) THEN <<>>
                               ELSE IF ~m.ok THEN ParseFromDiscarding(lines, c)
                               ELSE <<[date |-> m.date,
                                       type |-> EntryType(m.type),
                                       data |-> Strip(JoinLines(content_lines))]>>
                                    \o ParseFromDiscarding(lines, c)

RECURSIVE ParseFromVerbatim(_, _)
\* A variant of the loop that keeps the body as joined, without strip().
ParseFromVerbatim(lines, i) ==
    IF i > Len(lines) THEN <<>>
    ELSE IF ~IsSeparator(lines[i]) THEN ParseFromVerbatim(lines, i + 1)
    ELSE LET h == SkipBlank(lines, i + 1)
         IN  IF h > Len(lines) THEN <<>>
             ELSE LET m == HeaderSearch(NormalizeHeader(lines[h]))
                      d == NextSeparator(lines, h + 1)
                  IN  IF d > Len(lines) THEN <<>>
                      ELSE LET c == NextSeparator(lines, d + 1)
                               content_lines == SubSeq(lines, d + 1, c - 1)
                           IN  IF ~m.ok THEN ParseFromVerbatim(lines, c)
                               ELSE <<[date |-> m.date,
                                       type |-> EntryType(m.type),
                                       data |-> JoinLines(content_lines)]>>
                                    \o ParseFromVerbatim(lines, c)

RECURSIVE ParseFromStoppingAtMiss(_, _)
\* A variant of the loop that ends at the first header that does not match.
ParseFromStoppingAtMiss(lines, i) ==
    IF i > Len(lines) THEN <<>>
    ELSE IF ~IsSeparator(lines[i]) THEN ParseFromStoppingAtMiss(lines, i + 1)
    ELSE LET h == SkipBlank(lines, i + 1)
         IN  IF h > Len(lines) THEN <<>>
             ELSE LET m == HeaderSearch(NormalizeHeader(lines[h]))
                      d == NextSeparator(lines, h + 1)
                  IN  IF d > Len(lines) THEN <<>>
                      ELSE LET c == NextSeparator(lines, d + 1)
                               content_lines == SubSeq(lines, d + 1, c - 1)
                           IN  IF ~m.ok THEN <<>>
                               ELSE <<[date |-> m.date,
                                       type |-> EntryType(m.type),
                                       data |-> Strip(JoinLines(content_lines))]>>
                                    \o ParseFromStoppingAtMiss(lines, c)

RECURSIVE ParseFrom(_, _)
\* The while loop of parse_entries from line i on.
ParseFrom(lines, i) ==
    IF i > Len(lines) THEN <<>>
    ELSE IF ~IsSeparator(lines[i]) THEN ParseFrom(lines, i + 1)
    ELSE LET h == SkipBlank(lines, i + 1)
         IN  IF h > Len(lines) THEN <<>>
             ELSE LET m == HeaderSearch(NormalizeHeader(lines[h]))
                      d == NextSeparator(lines, h + 1)
                  IN  IF d > Len(lines) THEN <<>>
                      ELSE LET c == NextSeparator(lines, d + 1)
                               content_lines == SubSeq(lines, d + 1, c - 1)
                           IN  IF ~m.ok THEN ParseFrom(lines, c)
                               ELSE <<[date |-> m.date,
                                       type |-> EntryType(m.type),
                                       data |-> Strip(JoinLines(content_lines))]>>
                                    \o ParseFrom(lines, c)

parse_entries(text) ==
    LET raw == SplitLines(text)
        lines == [i \in 1..Len(raw) |-> RStripCRLF(raw[i])]
    IN  ParseFrom(lines, 1)

(***************************************************************************)
(* monitor_service.py: cleaning and trimming                               *)
(***************************************************************************)
LBRACKET_FW == "U+3010"
RBRACKET_FW == "U+3011"

\* META_LINE_RE.match(stripped)
IsMetaLine(st) ==
    \E e \in {Len(st), Len(st) + 1} :
        /\ e >= 3
        /\ AtEnd(st, e)
        /\ \/ st[1] = LBRACKET_FW /\ st[e - 1] = RBRACKET_FW
           \/ st[1] = "[" /\ st[e - 1] = "]"
        /\ \A k \in 2..(e - 2) : st[k] # "\n"

\* A variant of clean_entry_data that tries META_LINE_RE on the line as it is.
clean_entry_data_unstripped(text) ==
    LET lines == SplitLines(text)
        cleaned == SelectSeq(lines, LAMBDA line : Strip(line) # <<>> /\ ~IsMetaLine(line))
    IN  Strip(JoinLines(cleaned))

clean_entry_data(text) ==
    LET lines == SplitLines(text)
        cleaned == SelectSeq(lines, LAMBDA line :
                       LET stripped == Strip(line)
                       IN  stripped # <<>> /\ ~IsMetaLine(stripped))
    IN  Strip(JoinLines(cleaned))

\* The regex class \w.
IsWordChar(c) ==
    \E n \in {Ord(c)} :
        IF n < 128
        THEN (48 <= n /\ n <= 57) \/ (65 <= n /\ n <= 90) \/ n = 95 \/ (97 <= n /\ n <= 122)
        ELSE InRanges(n, WORD_RANGES)

\* \b at position p (between s[p - 1] and s[p]), for p > 1 after a word character.
BoundaryAt(s, p) == p > Len(s) \/ ~IsWordChar(s[p])

LiteralAt(s, p, lit) ==
    /\ p + Len(lit) - 1 <= Len(s)
    /\ \A k \in 1..Len(lit) : s[p + k - 1] = lit[k]

LogLevels == {<<"I", "N", "F", "O">>, <<"E", "R", "R", "O", "R">>,
              <<"D", "E", "B", "U", "G">>, <<"T", "R", "A", "C", "E">>,
              <<"W", "A", "R", "N">>, <<"W", "A", "R", "N", "I", "N", "G">>}

\* LOG_LINE_RE.match(stripped)
IsLogLine(st) ==
    LET p == SpaceRunEnd(st, 1)
    IN  \/ /\ DigitsAt(st, p, 4) /\ CharAt(st, p + 4, "-")
           /\ DigitsAt(st, p + 5, 2) /\ CharAt(st, p + 7, "-")
           /\ DigitsAt(st, p + 8, 2) /\ BoundaryAt(st, p + 10)
        \/ /\ DigitsAt(st, p, 2) /\ CharAt(st, p + 2, ":")
           /\ DigitsAt(st, p + 3, 2) /\ CharAt(st, p + 5, ":")
           /\ DigitsAt(st, p + 6, 2) /\ BoundaryAt(st, p + 8)
        \/ \E w \in LogLevels : LiteralAt(st, p, w) /\ BoundaryAt(st, p + Len(w))

\* JSON_LINE_RE.match(stripped)
IsJsonLine(st) ==
    LET p == SpaceRunEnd(st, 1)
        e == RStripFrom(st, Len(st))
    IN  /\ p < e
        /\ st[p] \in {"{", "["}
        /\ st[e] \in {"}", "]"}
        /\ \A k \in (p + 1)..(e - 1) : st[k] # "\n"

remove_logs(text, log_filter) ==
    IF text = <<>> THEN <<>>
    ELSE LET lines == SplitLines(text)
             filtered == SelectSeq(lines, LAMBDA line :
                             LET stripped == Strip(line)
                             IN  /\ stripped # <<>>
                                 /\ ~IsLogLine(stripped)
                                 /\ ~IsJsonLine(stripped)
                                 /\ ~(Len(stripped) > log_filter.max_line_len))
         IN  Strip(JoinLines(filtered))

RECURSIVE TrimFromWhole(_, _, _, _)
\* A variant of the loop of trim_entries that keeps the last entry whole.
TrimFromWhole(es, i, total, max_chars) ==
    IF i > Len(es) THEN <<>>
    ELSE IF es[i].data = <<>> THEN TrimFromWhole(es, i + 1, total, max_chars)
    ELSE IF total >= max_chars THEN <<>>
    ELSE IF total + Len(es[i].data) >= max_chars THEN <<es[i]>>
    ELSE <<es[i]>> \o TrimFromWhole(es, i + 1, total + Len(es[i].data), max_chars)

RECURSIVE TrimFromCountingBreaks(_, _, _, _)
\* A variant of the loop of trim_entries that counts one character more for
\* each entry kept, as for a line break after its body.
TrimFromCountingBreaks(es, i, total, max_chars) ==
    IF i > Len(es) THEN <<>>
    ELSE IF es[i].data = <<>> THEN TrimFromCountingBreaks(es, i + 1, total, max_chars)
    ELSE IF total >= max_chars THEN <<>>
    ELSE LET remaining == max_chars - total
             data == IF Len(es[i].data) > remaining
                     THEN SubSeq(es[i].data, 1, remaining)
                     ELSE es[i].data
             kept == [es[i] EXCEPT !.data = data]
         IN  IF total + Len(data) + 1 >= max_chars THEN <<kept>>
             ELSE <<kept>>
                  \o TrimFromCountingBreaks(es, i + 1, total + Len(data) + 1, max_chars)

RECURSIVE TrimFromCuttingToNothing(_, _, _, _)
\* A variant of the loop of trim_entries that, with the budget used up, keeps
\* one more entry cut to no characters.
TrimFromCuttingToNothing(es, i, total, max_chars) ==
    IF i > Len(es) THEN <<>>
    ELSE IF es[i].data = <<>> THEN TrimFromCuttingToNothing(es, i + 1, total, max_chars)
    ELSE IF total >= max_chars THEN <<[es[i] EXCEPT !.data = <<>>]>>
    ELSE LET remaining == max_chars - total
             data == IF Len(es[i].data) > remaining
                     THEN SubSeq(es[i].data, 1, remaining)
                     ELSE es[i].data
             kept == [es[i] EXCEPT !.data = data]
         IN  IF total + Len(data) >= max_chars THEN <<kept>>
             ELSE <<kept>> \o TrimFromCuttingToNothing(es, i + 1, total + Len(data), max_chars)

RECURSIVE TrimFrom(_, _, _, _)
\* The for loop of trim_entries from entry i on, with `total` characters kept.
TrimFrom(es, i, total, max_chars) ==
    IF i > Len(es) THEN <<>>
    ELSE IF es[i].data = <<>> THEN TrimFrom(es, i + 1, total, max_chars)
    ELSE IF total >= max_chars THEN <<>>
    ELSE LET remaining == max_chars - total
             data == IF Len(es[i].data) > remaining
                     THEN SubSeq(es[i].data, 1, remaining)
                     ELSE es[i].data
             kept == [es[i] EXCEPT !.data = data]
         IN  IF total + Len(data) >= max_chars THEN <<kept>>
             ELSE <<kept>> \o TrimFrom(es, i + 1, total + Len(data), max_chars)

\* A variant of trim_entries that returns the kept entries last first.
trim_entries_reversed(es, max_chars) ==
    LET kept == TrimFrom(es, 1, 0, max_chars)
    IN  [i \in 1..Len(kept) |-> kept[Len(kept) + 1 - i]]

trim_entries(es, max_chars) == TrimFrom(es, 1, 0, max_chars)

\* A variant of the meta-line pass without its fallback.
MetaPassNoFallback(original_data) == clean_entry_data(original_data)

\* The meta-line pass of build_case_json's loop: clean_entry_data, or the
\* original data when nothing is left of it.
MetaPass(original_data) ==
    LET cleaned == clean_entry_data(original_data)
    IN  IF cleaned = <<>> /\ original_data # <<>> THEN original_data ELSE cleaned

\* The log pass of the loop: remove_logs, or its input when nothing is left.
LogPass(original_cleaned, log_filter) ==
    LET cleaned == remove_logs(original_cleaned, log_filter)
    IN  IF cleaned = <<>> /\ original_cleaned # <<>> THEN original_cleaned ELSE cleaned

\* The body of build_case_json's loop: an entry's cleaned text (<<>>: dropped).
CleanedData(original_data, log_filter) ==
    IF log_filter.enabled
    THEN LogPass(MetaPass(original_data), log_filter)
    ELSE MetaPass(original_data)

CleanEntries(es, log_filter) ==
    LET withData == [i \in 1..Len(es) |->
                        [es[i] EXCEPT !.data = CleanedData(es[i].data, log_filter)]]
    IN  SelectSeq(withData, LAMBDA e : e.data # <<>>)

build_case_json(text, max_chars, log_filter) ==
    trim_entries(CleanEntries(parse_entries(text), log_filter), max_chars)

(***************************************************************************)
(* monitor_service.py: reading the oracle's reply                          *)
(*                                                                         *)
(* An optional value (a Python value or None) is [some, v].  A value read  *)
(* from JSON is [k, s, m]: a str (k = "str", s its text), None, True or    *)
(* False (k = "lit", s its repr), an int or a float (s its repr), a dict   *)
(* (k = "obj", m its pairs [key, val] as read) or a list (k = "arr", m its *)
(* items).                                                                 *)
(***************************************************************************)
None == [some |-> FALSE, v |-> <<>>]
Some(x) == [some |-> TRUE, v |-> x]

\* The least and the greatest element of a non-empty set of integers (T is
\* bound to the set's value, so that the set is computed once).
Min(S) == CHOOSE r \in {CHOOSE x \in T : \A y \in T : x <= y : T \in {S}} : TRUE
Max(S) == CHOOSE r \in {CHOOSE x \in T : \A y \in T : x >= y : T \in {S}} : TRUE

\* re.search(r"RESULT_LABEL\s*(APPROVE|REJECT|UNKNOWN)", text).group(1)
ResultAt(s, p, word) ==
    /\ LiteralAt(s, p, RESULT_LABEL)
    /\ LiteralAt(s, SpaceRunEnd(s, p + Len(RESULT_LABEL)), word)

SearchResult(s) ==
    LET hits == {p \in 1..Len(s) : \E w \in {APPROVE, REJECT, UNKNOWN} : ResultAt(s, p, w)}
    IN  IF hits = {} THEN None
        ELSE Some(CHOOSE w \in {APPROVE, REJECT, UNKNOWN} : ResultAt(s, Min(hits), w))

\* Where (.+) starts for REASON_LABEL\s*(.+) matched at p, 0 when no match: the
\* greedy \s* gives back whitespace until a character that is not a newline follows.
ReasonStartAt(s, p) ==
    IF ~LiteralAt(s, p, REASON_LABEL) THEN 0
    ELSE LET from == p + Len(REASON_LABEL)
             to == SpaceRunEnd(s, from)
             ok == {t \in from..to : t <= Len(s) /\ s[t] # "\n"}
         IN  IF ok = {} THEN 0 ELSE Max(ok)

\* re.search(r"REASON_LABEL\s*(.+)", text).group(1).strip()
SearchReason(s) ==
    LET hits == {p \in 1..Len(s) : ReasonStartAt(s, p) # 0}
    IN  IF hits = {} THEN None
        ELSE LET t == ReasonStartAt(s, Min(hits))
                 nl == {j \in t..Len(s) : s[j] = "\n"}
                 e == IF nl = {} THEN Len(s) ELSE Min(nl) - 1
             IN  Some(Strip(SubSeq(s, t, e)))

\* (result, reason)
parse_llm_judgement(text) == [result |-> SearchResult(text), reason |-> SearchReason(text)]

\* F(v), with v computed once.
With(v, F(_)) == CHOOSE r \in {F(x) : x \in {v}} : TRUE

\* What the scanner gives: a value and the position after it (ok), or the
\* exception it raises (err).
JsonOk(val, next) ==
    [ok |-> TRUE, err |-> "", next |-> next, val |-> val, depth |-> 0]
JsonRaise(err) ==
    [ok |-> FALSE, err |-> err, next |-> 0, val |-> [k |-> "none", s |-> <<>>, m |-> <<>>],
     depth |-> 0]
JsonFail == JsonRaise("JSONDecodeError")
\* An exception the scanner sets without building it (PyErr_SetObject with a
\* value that is no exception instance), with the number of containers the
\* scanner is inside of when it sets it: the ValueError of int(), and the
\* StopIteration of "no value here", which raw_decode turns into a
\* JSONDecodeError.
JsonLazy(err, depth) == [JsonRaise(err) EXCEPT !.depth = depth]
JsonStr(s) == [k |-> "str", s |-> s, m |-> <<>>]
JsonLit(s) == [k |-> "lit", s |-> s, m |-> <<>>]
JsonInt(s) == [k |-> "int", s |-> s, m |-> <<>>]
JsonFloat(s) == [k |-> "float", s |-> s, m |-> <<>>]
JsonObj(m) == [k |-> "obj", s |-> <<>>, m |-> m]
JsonArr(m) == [k |-> "arr", s |-> <<>>, m |-> m]

\* The first position from i on that holds no JSON whitespace.
JsonSkipWs(s, i) ==
    IF i > Len(s) \/ s[i] \notin {" ", "\t", "\n", "\r"} THEN i
    ELSE Min({k \in (i + 1)..(Len(s) + 1) :
                 k > Len(s) \/ s[k] \notin {" ", "\t", "\n", "\r"}})

\* The characters of the two-character escapes of a JSON string.
JSON_ESCAPES ==
    ("\"" :> "\"") @@ ("\\" :> "\\") @@ ("/" :> "/") @@ ("b" :> "U+0008")
    @@ ("f" :> "\f") @@ ("n" :> "\n") @@ ("r" :> "\r") @@ ("t" :> "\t")

\* The value of a hexadecimal digit, -1 for another character.
HexDigit(c) ==
    CHOOSE v \in {IF 48 <= n /\ n <= 57 THEN n - 48
                  ELSE IF 65 <= n /\ n <= 70 THEN n - 55
                  ELSE IF 97 <= n /\ n <= 102 THEN n - 87 ELSE -1 : n \in {Ord(c)}} : TRUE

\* The number the four hexadecimal digits s[i..i+3] write, -1 when they are
\* not four hexadecimal digits.
Hex4(s, i) ==
    IF i + 3 > Len(s) \/ \E k \in i..(i + 3) : HexDigit(s[k]) = -1 THEN -1
    ELSE 4096 * HexDigit(s[i]) + 256 * HexDigit(s[i + 1])
         + 16 * HexDigit(s[i + 2]) + HexDigit(s[i + 3])

RECURSIVE JsonStringFrom(_, _, _)
\* scanstring from the character s[i] inside a string on: up to the closing
\* quote, decoding the escapes; a control character, an unknown escape and a
\* missing quote are errors.  A \uXXXX high surrogate followed by a \uXXXX low
\* surrogate is one character.
JsonStringFrom(s, i, acc) ==
    IF i > Len(s) THEN JsonFail
    ELSE IF s[i] = "\"" THEN JsonOk(JsonStr(acc), i + 1)
    ELSE IF s[i] = "\\"
    THEN IF i + 1 > Len(s) THEN JsonFail
         ELSE IF s[i + 1] = "u"
         THEN \* end >= len: the four digits are followed by a character
              IF i + 6 > Len(s) THEN JsonFail
              ELSE With(Hex4(s, i + 2), LAMBDA c :
                   IF c = -1 THEN JsonFail
                   ELSE IF /\ 55296 <= c /\ c <= 56319
                           /\ i + 12 <= Len(s)
                           /\ s[i + 6] = "\\" /\ s[i + 7] = "u"
                   THEN With(Hex4(s, i + 8), LAMBDA c2 :
                        IF c2 = -1 THEN JsonFail
                        ELSE IF 56320 <= c2 /\ c2 <= 57343
                        THEN JsonStringFrom(s, i + 12,
                                Append(acc, Chr(65536 + 1024 * (c - 55296) + (c2 - 56320))))
                        ELSE JsonStringFrom(s, i + 6, Append(acc, Chr(c))))
                   ELSE JsonStringFrom(s, i + 6, Append(acc, Chr(c))))
         ELSE IF s[i + 1] \in DOMAIN JSON_ESCAPES
         THEN JsonStringFrom(s, i + 2, Append(acc, JSON_ESCAPES[s[i + 1]]))
         ELSE JsonFail
    ELSE IF Ord(s[i]) < 32 THEN JsonFail
    ELSE JsonStringFrom(s, i + 1, Append(acc, s[i]))

\* A string starting at its opening quote s[i].
JsonString(s, i) == JsonStringFrom(s, i + 1, <<>>)

ASCII_DIGITS == {"0", "1", "2", "3", "4", "5", "6", "7", "8", "9"}

\* The first position from i on that holds no ASCII digit.
DigitRunEnd(s, i) ==
    IF i > Len(s) \/ s[i] \notin ASCII_DIGITS THEN i
    ELSE Min({k \in (i + 1)..(Len(s) + 1) : k > Len(s) \/ s[k] \notin ASCII_DIGITS})

\* The digits without their leading zeros.
StripLeadingZeros(d) ==
    LET nz == {k \in 1..Len(d) : d[k] # "0"}
    IN  IF nz = {} THEN <<>> ELSE SubSeq(d, Min(nz), Len(d))

RECURSIVE DecimalValue(_)
DecimalValue(d) ==
    IF d = <<>> THEN 0 ELSE 10 * DecimalValue(SubSeq(d, 1, Len(d) - 1)) + (Ord(d[Len(d)]) - 48)

\* The number an exponent's digits write; beyond six digits, 1000000: a
\* number past every exponent a float has.
ExponentValue(d) ==
    CHOOSE v \in {IF Len(t) > 6 THEN 1000000 ELSE DecimalValue(t) :
                  t \in {StripLeadingZeros(d)}} : TRUE

RECURSIVE DecimalOf(_)
\* str(n) for an int n >= 0
DecimalOf(n) ==
    IF n < 10 THEN <<Chr(48 + n)>> ELSE DecimalOf(n \div 10) \o <<Chr(48 + (n % 10))>>

Zeros(n) == [k \in 1..n |-> "0"]

(***************************************************************************)
(* float() and repr() are exact, so the numbers they work on are written   *)
(* out: a natural number of any size is the sequence of its digits in base *)
(* 10000, the least significant first and the last one not 0 (zero is      *)
(* <<>>).  The operations look ahead for the carries instead of going      *)
(* through the digits one by one, and halve what they work on.             *)
(***************************************************************************)
BigLimb(a, k) == IF k <= Len(a) THEN a[k] ELSE 0

\* The sequence f with its elements computed.
Digits(f) == f \o <<>>

\* a without zeros at its upper end
BigNorm(a) ==
    IF a = <<>> \/ a[Len(a)] # 0 THEN a
    ELSE With({k \in 1..Len(a) : a[k] # 0}, LAMBDA nz :
         IF nz = {} THEN <<>> ELSE SubSeq(a, 1, Max(nz)))

RECURSIVE BigCmpIn(_, _, _, _)
\* -1, 0 or 1 as a is less than, equal to or greater than b in the digits
\* from..to, for a and b of one length
BigCmpIn(a, b, from, to) ==
    IF from = to THEN (IF a[from] < b[from] THEN -1 ELSE IF a[from] = b[from] THEN 0 ELSE 1)
    ELSE With((from + to) \div 2, LAMBDA mid :
         IF SubSeq(a, mid + 1, to) = SubSeq(b, mid + 1, to) THEN BigCmpIn(a, b, from, mid)
         ELSE BigCmpIn(a, b, mid + 1, to))

\* -1, 0 or 1 as a < b, a = b or a > b
BigCmp(a, b) ==
    IF Len(a) # Len(b) THEN (IF Len(a) < Len(b) THEN -1 ELSE 1)
    ELSE IF a = b THEN 0 ELSE BigCmpIn(a, b, 1, Len(a))

\* The carry into digit k of a sum whose digits, before the carries, are
\* `sums`: what the nearest digit below that is not 9999 gives (a 9999 passes
\* a carry on).
CarryInto(sums, k) ==
    IF k = 1 THEN 0
    ELSE IF sums[k - 1] # 9999 THEN (IF sums[k - 1] > 9999 THEN 1 ELSE 0)
    ELSE With({m \in 1..(k - 1) : sums[m] # 9999}, LAMBDA from :
         IF from # {} /\ sums[Max(from)] > 9999 THEN 1 ELSE 0)

\* a + b, for a and b with digits up to 9999 and zeros allowed at the upper end
BigAdd(a, b) ==
    With(Digits([k \in 1..Max({Len(a), Len(b)}) |-> BigLimb(a, k) + BigLimb(b, k)]),
         LAMBDA sums :
    BigNorm(Digits([k \in 1..(Len(sums) + 1) |->
                       IF k > Len(sums) THEN CarryInto(sums, k)
                       ELSE (sums[k] + CarryInto(sums, k)) % 10000])))

\* The borrow from digit k of a difference whose digits, before the borrows,
\* are `diffs`: what the nearest digit below that is not 0 takes.
BorrowFrom(diffs, k) ==
    IF k = 1 THEN 0
    ELSE IF diffs[k - 1] # 0 THEN (IF diffs[k - 1] < 0 THEN 1 ELSE 0)
    ELSE With({m \in 1..(k - 1) : diffs[m] # 0}, LAMBDA from :
         IF from # {} /\ diffs[Max(from)] < 0 THEN 1 ELSE 0)

\* a - b, for a >= b
BigSub(a, b) ==
    With(Digits([k \in 1..Len(a) |-> a[k] - BigLimb(b, k)]), LAMBDA diffs :
    BigNorm(Digits([k \in 1..Len(diffs) |->
                       (diffs[k] - BorrowFrom(diffs, k) + 10000) % 10000])))

\* a * m, for m in 0..10000
BigMulSmall(a, m) ==
    IF m = 0 \/ a = <<>> THEN <<>>
    ELSE BigAdd(Digits([k \in 1..Len(a) |-> (a[k] * m) % 10000]),
                <<0>> \o [k \in 1..Len(a) |-> (a[k] * m) \div 10000])

\* a * 10000^n
BigShift(a, n) == IF a = <<>> THEN <<>> ELSE [k \in 1..n |-> 0] \o a

RECURSIVE BigMul(_, _)
\* a * b, b with zeros allowed at its upper end
BigMul(a, b) ==
    IF a = <<>> \/ b = <<>> THEN <<>>
    ELSE IF Len(b) = 1 THEN BigMulSmall(a, b[1])
    ELSE With(Len(b) \div 2, LAMBDA h :
         BigAdd(BigMul(a, SubSeq(b, 1, h)),
                BigShift(BigMul(a, SubSeq(b, h + 1, Len(b))), h)))

RECURSIVE Pow2(_)
\* 2^n
Pow2(n) ==
    IF n < 13 THEN <<2 ^ n>>
    ELSE With(Pow2(n \div 2), LAMBDA h :
         With(BigMul(h, h), LAMBDA sq : IF n % 2 = 1 THEN BigMulSmall(sq, 2) ELSE sq))

\* a * 10^n
BigMulPow10(a, n) == BigShift(BigMulSmall(a, 10 ^ (n % 4)), n \div 4)

\* The number the decimal digits d write.
BigOfDigits(d) ==
    BigNorm(Digits([j \in 1..((Len(d) + 3) \div 4) |->
                DecimalValue(SubSeq(d, Max({1, Len(d) - 4 * j + 1}), Len(d) - 4 * j + 4))]))

\* s, 2s, ... 9s
Multiples(s) ==
    <<s, BigMulSmall(s, 2), BigMulSmall(s, 3), BigMulSmall(s, 4), BigMulSmall(s, 5),
      BigMulSmall(s, 6), BigMulSmall(s, 7), BigMulSmall(s, 8), BigMulSmall(s, 9)>>

\* r \div s and r % s, for r < 10 * s and `multiples` those of s
DivideBy(r, multiples) ==
    With(Cardinality({c \in 1..9 : BigCmp(multiples[c], r) <= 0}), LAMBDA dig :
         [dig |-> dig, rest |-> IF dig = 0 THEN r ELSE BigSub(r, multiples[dig])])

RECURSIVE DigitsOf(_, _, _, _)
\* The first n decimal digits after the point of r/s, for r < s, after the
\* digits acc, and what is left of r: [d, rest]
DigitsOf(r, multiples, n, acc) ==
    IF n = 0 THEN [d |-> acc, rest |-> r]
    ELSE With(DivideBy(BigMulSmall(r, 10), multiples), LAMBDA step :
         DigitsOf(step.rest, multiples, n - 1, Append(acc, Chr(48 + step.dig))))

\* A float is infinity, zero, or q * 2^e with q below 2^53 and e at least
\* -1074, where q is at least 2^52 unless e is -1074; 2^x is at most the float.
FloatInf == [kind |-> "inf", q |-> <<>>, e |-> 0, x |-> 0]
FloatZero == [kind |-> "zero", q |-> <<>>, e |-> 0, x |-> 0]
FloatNum(q, e, x) == [kind |-> "num", q |-> q, e |-> e, x |-> x]

\* 2^52 and 2^53
TWO_52 == Pow2(52)
TWO_53 == Pow2(53)

\* The float nearest to num/den * 2^e, for num/den below 2^53, a half going
\* to the even one; 2^x is at most num/den * 2^e.
RoundTo(num, den, e, x) ==
    With(BigMulPow10(den, 16), LAMBDA s :
    With(DigitsOf(num, Multiples(s), 16, <<>>), LAMBDA whole :
    With(BigOfDigits(whole.d), LAMBDA q :
    With(BigCmp(BigMulSmall(whole.rest, 2), s), LAMBDA half :
    With(IF half > 0 \/ (half = 0 /\ BigLimb(q, 1) % 2 = 1) THEN BigAdd(q, <<1>>) ELSE q,
         LAMBDA up :
    IF up = <<>> THEN FloatZero
    ELSE IF up = TWO_53 THEN (IF e + 1 > 971 THEN FloatInf ELSE FloatNum(TWO_52, e + 1, x))
    ELSE IF e > 971 THEN FloatInf ELSE FloatNum(up, e, x))))))

\* float() of 0.d * 10^decpt, for significant digits d (no zero at either
\* end).  Digits after the 800th only tell the number from the one that stops
\* there.
ToDouble(d, decpt) ==
    IF decpt >= 310 THEN FloatInf
    ELSE IF decpt <= -324 THEN FloatZero
    ELSE With(IF Len(d) > 800 THEN SubSeq(d, 1, 800) \o <<"1">> ELSE d, LAMBDA kept :
         With(decpt - Len(kept), LAMBDA e10 :
         \* the number is N / M, at least 2^lo and below 2^hi
         With(BigMulPow10(BigOfDigits(kept), IF e10 > 0 THEN e10 ELSE 0), LAMBDA N :
         With(BigMulPow10(<<1>>, IF e10 < 0 THEN -e10 ELSE 0), LAMBDA M :
         With((IF decpt >= 0 THEN (decpt * 33220) \div 10000
               ELSE (decpt * 33219) \div 10000) + 1, LAMBDA hi :
         With((IF decpt >= 1 THEN ((decpt - 1) * 33219) \div 10000
               ELSE ((decpt - 1) * 33220) \div 10000) - 1, LAMBDA lo :
         \* P / Q is the number over 2^hi
         With(IF hi >= 0 THEN N ELSE BigMul(N, Pow2(-hi)), LAMBDA P :
         With(IF hi >= 0 THEN BigMul(M, Pow2(hi)) ELSE M, LAMBDA Q :
         \* 2^top is the greatest power of two that is at most the number
         With(hi - Min({c \in 0..(hi - lo) : BigCmp(Q, BigMulSmall(P, 2 ^ c)) <= 0}),
              LAMBDA top :
         With(IF top - 52 < -1074 THEN -1074 ELSE top - 52, LAMBDA e :
         RoundTo(BigMul(P, Pow2(hi - e)), Q, e, IF top < e THEN e ELSE top)))))))))))

\* The digits with a last digit of 10 carried over: the nines before it go,
\* the digit before them is one more; [d, k], k one more when all were nines.
CarryDigits(ds, k) ==
    IF ds[Len(ds)] # 10 THEN [d |-> ds, k |-> k]
    ELSE With({i \in 1..(Len(ds) - 1) : ds[i] # 9}, LAMBDA low :
         IF low = {} THEN [d |-> <<1>>, k |-> k + 1]
         ELSE With(Max(low), LAMBDA i :
              [d |-> SubSeq(ds, 1, i - 1) \o <<ds[i] + 1>>, k |-> k]))

\* The next digit of r/s and whether it is the last one (the one after the
\* last may be 10), for the float r/s that the decimals from (r - mm)/s to
\* (r + mp)/s are read as, the two ends too when q is even: the last digit is
\* the nearer to r/s, the even one at a half.  [dig, done, r, mp, mm]
NextDigit(r, s, multiples, mp, mm, even) ==
    With(DivideBy(BigMulSmall(r, 10), multiples), LAMBDA step :
    With(BigMulSmall(mp, 10), LAMBDA mp10 :
    With(BigMulSmall(mm, 10), LAMBDA mm10 :
    With(BigCmp(step.rest, mm10), LAMBDA low :
    With(BigCmp(BigAdd(step.rest, mp10), s), LAMBDA high :
    With(IF high = 0 /\ even THEN [done |-> TRUE, up |-> low > 0]
         ELSE IF low < 0 \/ (low = 0 /\ even)
         THEN [done |-> TRUE,
               up |-> /\ step.rest # <<>>
                      /\ high > 0
                      /\ \E half \in {BigCmp(BigMulSmall(step.rest, 2), s)} :
                            half > 0 \/ (half = 0 /\ step.dig % 2 = 1)]
         ELSE [done |-> high > 0, up |-> high > 0], LAMBDA last :
    [dig |-> IF last.up THEN step.dig + 1 ELSE step.dig, done |-> last.done,
     r |-> step.rest, mp |-> mp10, mm |-> mm10]))))))

RECURSIVE ShortestDigits(_, _, _, _, _, _, _)
\* The digits after 0. of the shortest decimal that float() reads back as the
\* float r/s.
ShortestDigits(r, s, multiples, mp, mm, even, acc) ==
    With(NextDigit(r, s, multiples, mp, mm, even), LAMBDA nx :
    IF nx.done THEN Append(acc, nx.dig)
    ELSE ShortestDigits(nx.r, s, multiples, nx.mp, nx.mm, even, Append(acc, nx.dig)))

RECURSIVE ScaleUp(_, _, _, _, _, _)
\* s times ten as long as the upper end (r + mp)/s is too large to come after
\* "0."; then the digits and k, the number being 0.digits * 10^k.
ScaleUp(r, s, mp, mm, even, k) ==
    With(BigCmp(BigAdd(r, mp), s), LAMBDA high :
    IF high > 0 \/ (high = 0 /\ even)
    THEN With(BigMulSmall(s, 10), LAMBDA s10 : ScaleUp(r, s10, mp, mm, even, k + 1))
    ELSE CarryDigits(ShortestDigits(r, s, Multiples(s), mp, mm, even, <<>>), k))

\* The shortest digits of the float q * 2^e and where its decimal point is:
\* [d, k] for 0.d * 10^k; 2^x is at most the float.
Shortest(q, e, x) ==
    With(BigLimb(q, 1) % 2 = 0, LAMBDA even :
    \* the float and half the gaps to its neighbours, as r/s, mp/s and mm/s:
    \* the gap below a power of two is half the one above
    With(IF e >= 0
         THEN With(Pow2(e), LAMBDA p :
              IF q # TWO_52
              THEN [r |-> BigMulSmall(BigMul(q, p), 2), s |-> <<2>>, mp |-> p, mm |-> p]
              ELSE [r |-> BigMulSmall(BigMul(q, p), 4), s |-> <<4>>,
                    mp |-> BigMulSmall(p, 2), mm |-> p])
         ELSE IF e = -1074 \/ q # TWO_52
              THEN [r |-> BigMulSmall(q, 2), s |-> Pow2(1 - e), mp |-> <<1>>, mm |-> <<1>>]
              ELSE [r |-> BigMulSmall(q, 4), s |-> Pow2(2 - e), mp |-> <<2>>, mm |-> <<1>>],
         LAMBDA v :
    \* 10^est is at most the float
    With((IF x >= 0 THEN (x * 30102) \div 100000 ELSE (x * 30103) \div 100000) - 1, LAMBDA est :
    With(IF est >= 0
         THEN [r |-> v.r, s |-> BigMulPow10(v.s, est), mp |-> v.mp, mm |-> v.mm]
         ELSE [r |-> BigMulPow10(v.r, -est), s |-> v.s, mp |-> BigMulPow10(v.mp, -est),
               mm |-> BigMulPow10(v.mm, -est)],
         LAMBDA w :
    ScaleUp(w.r, w.s, w.mp, w.mm, even, est)))))

\* repr() of the float with the shortest digits d (no zero at either end)
\* and the decimal point after the first decpt of them: positional from 1e-4
\* up to 1e16, with an exponent of at least two digits otherwise.
FormatFloat(d, decpt) ==
    IF -4 < decpt /\ decpt <= 16
    THEN IF decpt <= 0 THEN <<"0", ".">> \o Zeros(-decpt) \o d
         ELSE IF decpt >= Len(d) THEN d \o Zeros(decpt - Len(d)) \o <<".", "0">>
         ELSE SubSeq(d, 1, decpt) \o <<".">> \o SubSeq(d, decpt + 1, Len(d))
    ELSE LET e == decpt - 1
             digits == DecimalOf(IF e < 0 THEN -e ELSE e)
         IN  <<d[1]>> \o (IF Len(d) > 1 THEN <<".">> \o Tail(d) ELSE <<>>)
             \o <<"e", IF e < 0 THEN "-" ELSE "+">>
             \o (IF Len(digits) < 2 THEN <<"0">> ELSE <<>>) \o digits

\* repr(float(0.d * 10^decpt)) without its sign, for significant digits d (no
\* zero at either end): the number is read as the nearest float, and the
\* float is written with the fewest digits that read back as it
\* (0.1234567890123456789 as 0.12345678901234568); a number too large for a
\* float is inf and one too small 0.0.
ReprOfDigits(d, decpt) ==
    With(ToDouble(d, decpt), LAMBDA f :
    IF f.kind = "inf" THEN <<"i", "n", "f">>
    ELSE IF f.kind = "zero" THEN <<"0", ".", "0">>
    ELSE With(Shortest(f.q, f.e, f.x), LAMBDA short :
         FormatFloat(Digits([i \in 1..Len(short.d) |-> Chr(48 + short.d[i])]), short.k)))

\* repr(float(text)) for the number text with the integer digits int, the
\* fraction digits frac and the exponent exp.  No two numbers of up to 15
\* significant digits (sys.float_info.dig) between 1e-307 and 1e308 are read
\* as the same float, so the fewest digits that read back as the float of
\* such a number are its own.
FloatRepr(neg, int, frac, exp) ==
    LET sign == IF neg THEN <<"-">> ELSE <<>>
    IN  With(int \o frac, LAMBDA mant :
        With({k \in 1..Len(mant) : mant[k] # "0"}, LAMBDA nz :
        IF nz = {} THEN sign \o <<"0", ".", "0">>
        ELSE With(SubSeq(mant, Min(nz), Max(nz)), LAMBDA d :
             With(Len(int) - Min(nz) + 1 + exp, LAMBDA decpt :
             IF Len(d) <= 15 /\ -307 < decpt /\ decpt <= 308
             THEN sign \o FormatFloat(d, decpt)
             ELSE sign \o ReprOfDigits(d, decpt)))))

\* sys.int_info.default_max_str_digits: the digits int() reads at most.
INT_MAX_STR_DIGITS == 4300

\* The number that starts at s[i], as the scanner matches it:
\* -?(0|[1-9][0-9]*)(\.[0-9]+)?([eE][-+]?[0-9]+)?, an int unless it has a
\* fraction or an exponent.
JsonNumber(s, i) ==
    \* a: after the sign; b: after the integer digits
    With(IF CharAt(s, i, "-") THEN i + 1 ELSE i, LAMBDA a :
    With(IF CharAt(s, a, "0") THEN a + 1 ELSE DigitRunEnd(s, a), LAMBDA b :
    IF b = a THEN JsonFail
    ELSE \* fracEnd: after the fraction, if there is one with a digit
    With(IF CharAt(s, b, ".") /\ DigitRunEnd(s, b + 1) > b + 1
         THEN DigitRunEnd(s, b + 1) ELSE b, LAMBDA fracEnd :
    \* x: where the digits of an exponent would start, 0 without e or E
    With(IF fracEnd <= Len(s) /\ s[fracEnd] \in {"e", "E"}
         THEN (IF fracEnd + 1 <= Len(s) /\ s[fracEnd + 1] \in {"+", "-"}
               THEN fracEnd + 2 ELSE fracEnd + 1)
         ELSE 0, LAMBDA x :
    \* expEnd: after the exponent, if there is one with a digit
    With(IF x # 0 /\ DigitRunEnd(s, x) > x THEN DigitRunEnd(s, x) ELSE fracEnd,
         LAMBDA expEnd :
    IF expEnd = b
    THEN \* int(): more than INT_MAX_STR_DIGITS digits are a ValueError
         IF b - a > INT_MAX_STR_DIGITS THEN JsonRaise("ValueError")
         ELSE JsonOk(JsonInt(IF SubSeq(s, i, b - 1) = <<"-", "0">> THEN <<"0">>
                             ELSE SubSeq(s, i, b - 1)), b)
    ELSE JsonOk(JsonFloat(FloatRepr(a > i, SubSeq(s, a, b - 1),
                                    SubSeq(s, b + 1, fracEnd - 1),
                                    IF expEnd = fracEnd THEN 0
                                    ELSE IF s[x - 1] = "-"
                                    THEN -ExponentValue(SubSeq(s, x, expEnd - 1))
                                    ELSE ExponentValue(SubSeq(s, x, expEnd - 1)))),
                expEnd))))))

\* The containers json.loads can be inside of when process_case calls
\* parse_llm_json: each array and object the scanner enters takes one level of
\* the interpreter's recursion limit (sys.getrecursionlimit(), 1000), of which
\* nine are in use by then (the module, main, monitor_directory, process_case,
\* parse_llm_json, json.loads, decode, raw_decode and the scanner's own).
JSON_MAX_DEPTH == 1000 - 9

\* Inside `depth` containers the recursion limit leaves room for `levels`
\* more calls.
LevelsLeft(depth, levels) == depth + levels <= JSON_MAX_DEPTH

\* raise_errmsg inside `depth` containers: the scanner calls the class
\* JSONDecodeError, whose __init__ is Python code that calls doc.count: three
\* levels.  Without them the call raises RecursionError instead.
JsonErrmsg(depth) ==
    IF LevelsLeft(depth, 3) THEN JsonFail ELSE JsonRaise("RecursionError")

\* _parse_constant inside `depth` containers: NaN, Infinity and -Infinity are
\* looked up by a call of parse_constant, one level.
JsonConstant(repr, next, depth) ==
    IF LevelsLeft(depth, 1) THEN JsonOk(JsonFloat(repr), next)
    ELSE JsonRaise("RecursionError")

\* The first position from i on that holds neither an opening bracket nor
\* whitespace.
OpenArraysEnd(s, i) ==
    Min({k \in i..(Len(s) + 1) : k > Len(s) \/ s[k] \notin {"[", " ", "\t", "\n", "\r"}})

\* How many arrays open one inside the other from s[i] on, before anything
\* but whitespace and opening brackets is read.
OpenArrays(s, i) == Cardinality({k \in i..(OpenArraysEnd(s, i) - 1) : s[k] = "["})

RECURSIVE JsonValue(_, _, _)
RECURSIVE JsonMembers(_, _, _, _)
RECURSIVE JsonItems(_, _, _, _)
RECURSIVE FirstItem(_, _, _)
\* scan_once: the value that starts at s[i], inside `depth` containers.  To
\* enter one more container than JSON_MAX_DEPTH is a RecursionError; arrays
\* that open one inside the other are entered before anything else is read,
\* and what the first item of the innermost one fails with, they all fail with.
JsonValue(s, i, depth) ==
    IF i > Len(s) THEN JsonLazy("JSONDecodeError", depth)
    ELSE IF s[i] = "\""
         THEN With(JsonString(s, i), LAMBDA str :
              IF str.ok THEN str ELSE JsonErrmsg(depth))
    ELSE IF s[i] = "{"
         THEN IF depth >= JSON_MAX_DEPTH THEN JsonRaise("RecursionError")
              ELSE With(JsonSkipWs(s, i + 1), LAMBDA j :
                   IF CharAt(s, j, "}") THEN JsonOk(JsonObj(<<>>), j + 1)
                   ELSE JsonMembers(s, j, depth + 1, <<>>))
    ELSE IF s[i] = "["
         THEN With(OpenArrays(s, i), LAMBDA opened :
              With(OpenArraysEnd(s, i), LAMBDA first :
              IF depth + opened > JSON_MAX_DEPTH THEN JsonRaise("RecursionError")
              ELSE IF /\ opened > 1
                      /\ ~CharAt(s, first, "]")
                      /\ ~FirstItem(s, first, depth + opened).ok
              THEN FirstItem(s, first, depth + opened)
              ELSE With(JsonSkipWs(s, i + 1), LAMBDA j :
                   IF CharAt(s, j, "]") THEN JsonOk(JsonArr(<<>>), j + 1)
                   ELSE JsonItems(s, j, depth + 1, <<>>))))
    ELSE IF LiteralAt(s, i, <<"n", "u", "l", "l">>)
         THEN JsonOk(JsonLit(<<"N", "o", "n", "e">>), i + 4)
    ELSE IF LiteralAt(s, i, <<"t", "r", "u", "e">>)
         THEN JsonOk(JsonLit(<<"T", "r", "u", "e">>), i + 4)
    ELSE IF LiteralAt(s, i, <<"f", "a", "l", "s", "e">>)
         THEN JsonOk(JsonLit(<<"F", "a", "l", "s", "e">>), i + 5)
    ELSE IF LiteralAt(s, i, <<"N", "a", "N">>)
         THEN JsonConstant(<<"n", "a", "n">>, i + 3, depth)
    ELSE IF LiteralAt(s, i, <<"I", "n", "f", "i", "n", "i", "t", "y">>)
         THEN JsonConstant(<<"i", "n", "f">>, i + 8, depth)
    ELSE IF LiteralAt(s, i, <<"-", "I", "n", "f", "i", "n", "i", "t", "y">>)
         THEN JsonConstant(<<"-", "i", "n", "f">>, i + 9, depth)
    ELSE With(JsonNumber(s, i), LAMBDA num :
         IF num.ok THEN num ELSE JsonLazy(num.err, depth))

\* The first item, at s[i], of an array that is the `depth`-th container:
\* the item's failure, or that of the array when neither "]" nor "," follows
\* the item.
FirstItem(s, i, depth) ==
    With(JsonValue(s, i, depth), LAMBDA item :
    IF ~item.ok THEN item
    ELSE With(JsonSkipWs(s, item.next), LAMBDA e :
         IF CharAt(s, e, "]") \/ CharAt(s, e, ",") THEN item ELSE JsonErrmsg(depth)))

\* The members of an object, the `depth`-th container, from a key's opening
\* quote on.
JsonMembers(s, i, depth, acc) ==
    IF ~CharAt(s, i, "\"") THEN JsonErrmsg(depth)
    ELSE With(JsonString(s, i), LAMBDA key :
         IF ~key.ok THEN JsonErrmsg(depth)
         ELSE With(JsonSkipWs(s, key.next), LAMBDA c :
              IF ~CharAt(s, c, ":") THEN JsonErrmsg(depth)
              ELSE With(JsonValue(s, JsonSkipWs(s, c + 1), depth), LAMBDA v :
                   IF ~v.ok THEN v
                   ELSE With(JsonSkipWs(s, v.next), LAMBDA e :
                        LET more == Append(acc, [key |-> key.val.s, val |-> v.val])
                        IN  IF CharAt(s, e, "}") THEN JsonOk(JsonObj(more), e + 1)
                            ELSE IF CharAt(s, e, ",")
                            THEN JsonMembers(s, JsonSkipWs(s, e + 1), depth, more)
                            ELSE JsonErrmsg(depth)))))

\* The items of an array, the `depth`-th container, from its first item on.
JsonItems(s, i, depth, acc) ==
    With(JsonValue(s, i, depth), LAMBDA v :
    IF ~v.ok THEN v
    ELSE With(JsonSkipWs(s, v.next), LAMBDA e :
         LET more == Append(acc, v.val)
         IN  IF CharAt(s, e, "]") THEN JsonOk(JsonArr(more), e + 1)
             ELSE IF CharAt(s, e, ",")
             THEN JsonItems(s, JsonSkipWs(s, e + 1), depth, more)
             ELSE JsonErrmsg(depth)))

\* json.loads(s) for an optional text s (None: a null content), called while
\* an exception is being handled or not: the value, or the exception raised:
\* TypeError for what is no text, JSONDecodeError for what is no JSON, and the
\* RecursionError and the ValueError of the scanner.  An exception the scanner
\* sets without building it is built at once when another one is being
\* handled (to chain it), by a call that takes one level; otherwise it is
\* built where it is caught.
JsonLoads(s, handling) ==
    IF ~s.some THEN JsonRaise("TypeError")
    ELSE With(JsonValue(s.v, JsonSkipWs(s.v, 1), 0), LAMBDA v :
         IF v.ok THEN (IF JsonSkipWs(s.v, v.next) > Len(s.v) THEN v ELSE JsonFail)
         ELSE IF handling /\ ~LevelsLeft(v.depth, 1) THEN JsonRaise("RecursionError")
         ELSE JsonRaise(v.err))

\* json.loads(s), no exception being handled.
json_loads(s) == JsonLoads(s, FALSE)

\* parse_llm_json returned None.
NoJson == JsonRaise("")

\* parse_llm_json(text): the value (ok), None (NoJson), or the exception that
\* leaves it (err): only JSONDecodeError is caught.  The second json.loads is
\* called in the handler of the first one's exception.
parse_llm_json(text) ==
    With(json_loads(text), LAMBDA whole :
    IF whole.err # "JSONDecodeError" THEN whole
    ELSE With({j \in 1..Len(text.v) : text.v[j] = "{"}, LAMBDA opens :
         With({j \in 1..Len(text.v) : text.v[j] = "}"}, LAMBDA closes :
         IF opens = {} \/ closes = {} THEN NoJson
         ELSE IF Max(closes) <= Min(opens) THEN NoJson
         ELSE With(JsonLoads(Some(SubSeq(text.v, Min(opens), Max(closes))), TRUE),
                   LAMBDA span :
              IF span.err = "JSONDecodeError" THEN NoJson ELSE span))))

\* An exception left parse_llm_json.
Raised(j) == ~j.ok /\ j.err # ""

\* bool(llm_json) and isinstance(llm_json, dict)
IsNonEmptyDict(j) == j.ok /\ j.val.k = "obj" /\ j.val.m # <<>>

\* The keys of a dict in insertion order: a repeated key keeps its first place.
DictKeys(m) ==
    LET firsts == SelectSeq([i \in 1..Len(m) |-> i],
                            LAMBDA i : \A j \in 1..(i - 1) : m[j].key # m[i].key)
    IN  [n \in 1..Len(firsts) |-> m[firsts[n]].key]

\* dict[key]: a repeated key has its last value.
DictGet(m, key) == m[Max({i \in 1..Len(m) : m[i].key = key})].val

DictHas(m, key) == \E i \in 1..Len(m) : m[i].key = key

\* The code points above 127 that str.isprintable() rejects, as ranges
\* <<first, last>>.
NONPRINTABLE_RANGES ==
    <<<<128, 160>>, <<173, 173>>, <<888, 889>>, <<896, 899>>, <<907, 907>>,
      <<909, 909>>, <<930, 930>>, <<1328, 1328>>, <<1367, 1368>>,
      <<1419, 1420>>, <<1424, 1424>>, <<1480, 1487>>, <<1515, 1518>>,
      <<1525, 1541>>, <<1564, 1564>>, <<1757, 1757>>, <<1806, 1807>>,
      <<1867, 1868>>, <<1970, 1983>>, <<2043, 2044>>, <<2094, 2095>>,
      <<2111, 2111>>, <<2140, 2141>>, <<2143, 2143>>, <<2155, 2159>>,
      <<2191, 2199>>, <<2274, 2274>>, <<2436, 2436>>, <<2445, 2446>>,
      <<2449, 2450>>, <<2473, 2473>>, <<2481, 2481>>, <<2483, 2485>>,
      <<2490, 2491>>, <<2501, 2502>>, <<2505, 2506>>, <<2511, 2518>>,
      <<2520, 2523>>, <<2526, 2526>>, <<2532, 2533>>, <<2559, 2560>>,
      <<2564, 2564>>, <<2571, 2574>>, <<2577, 2578>>, <<2601, 2601>>,
      <<2609, 2609>>, <<2612, 2612>>, <<2615, 2615>>, <<2618, 2619>>,
      <<2621, 2621>>, <<2627, 2630>>, <<2633, 2634>>, <<2638, 2640>>,
      <<2642, 2648>>, <<2653, 2653>>, <<2655, 2661>>, <<2679, 2688>>,
      <<2692, 2692>>, <<2702, 2702>>, <<2706, 2706>>, <<2729, 2729>>,
      <<2737, 2737>>, <<2740, 2740>>, <<2746, 2747>>, <<2758, 2758>>,
      <<2762, 2762>>, <<2766, 2767>>, <<2769, 2783>>, <<2788, 2789>>,
      <<2802, 2808>>, <<2816, 2816>>, <<2820, 2820>>, <<2829, 2830>>,
      <<2833, 2834>>, <<2857, 2857>>, <<2865, 2865>>, <<2868, 2868>>,
      <<2874, 2875>>, <<2885, 2886>>, <<2889, 2890>>, <<2894, 2900>>,
      <<2904, 2907>>, <<2910, 2910>>, <<2916, 2917>>, <<2936, 2945>>,
      <<2948, 2948>>, <<2955, 2957>>, <<2961, 2961>>, <<2966, 2968>>,
      <<2971, 2971>>, <<2973, 2973>>, <<2976, 2978>>, <<2981, 2983>>,
      <<2987, 2989>>, <<3002, 3005>>, <<3011, 3013>>, <<3017, 3017>>,
      <<3022, 3023>>, <<3025, 3030>>, <<3032, 3045>>, <<3067, 3071>>,
      <<3085, 3085>>, <<3089, 3089>>, <<3113, 3113>>, <<3130, 3131>>,
      <<3141, 3141>>, <<3145, 3145>>, <<3150, 3156>>, <<3159, 3159>>,
      <<3163, 3164>>, <<3166, 3167>>, <<3172, 3173>>, <<3184, 3190>>,
      <<3213, 3213>>, <<3217, 3217>>, <<3241, 3241>>, <<3252, 3252>>,
      <<3258, 3259>>, <<3269, 3269>>, <<3273, 3273>>, <<3278, 3284>>,
      <<3287, 3292>>, <<3295, 3295>>, <<3300, 3301>>, <<3312, 3312>>,
      <<3315, 3327>>, <<3341, 3341>>, <<3345, 3345>>, <<3397, 3397>>,
      <<3401, 3401>>, <<3408, 3411>>, <<3428, 3429>>, <<3456, 3456>>,
      <<3460, 3460>>, <<3479, 3481>>, <<3506, 3506>>, <<3516, 3516>>,
      <<3518, 3519>>, <<3527, 3529>>, <<3531, 3534>>, <<3541, 3541>>,
      <<3543, 3543>>, <<3552, 3557>>, <<3568, 3569>>, <<3573, 3584>>,
      <<3643, 3646>>, <<3676, 3712>>, <<3715, 3715>>, <<3717, 3717>>,
      <<3723, 3723>>, <<3748, 3748>>, <<3750, 3750>>, <<3774, 3775>>,
      <<3781, 3781>>, <<3783, 3783>>, <<3790, 3791>>, <<3802, 3803>>,
      <<3808, 3839>>, <<3912, 3912>>, <<3949, 3952>>, <<3992, 3992>>,
      <<4029, 4029>>, <<4045, 4045>>, <<4059, 4095>>, <<4294, 4294>>,
      <<4296, 4300>>, <<4302, 4303>>, <<4681, 4681>>, <<4686, 4687>>,
      <<4695, 4695>>, <<4697, 4697>>, <<4702, 4703>>, <<4745, 4745>>,
      <<4750, 4751>>, <<4785, 4785>>, <<4790, 4791>>, <<4799, 4799>>,
      <<4801, 4801>>, <<4806, 4807>>, <<4823, 4823>>, <<4881, 4881>>,
      <<4886, 4887>>, <<4955, 4956>>, <<4989, 4991>>, <<5018, 5023>>,
      <<5110, 5111>>, <<5118, 5119>>, <<5760, 5760>>, <<5789, 5791>>,
      <<5881, 5887>>, <<5910, 5918>>, <<5943, 5951>>, <<5972, 5983>>,
      <<5997, 5997>>, <<6001, 6001>>, <<6004, 6015>>, <<6110, 6111>>,
      <<6122, 6127>>, <<6138, 6143>>, <<6158, 6158>>, <<6170, 6175>>,
      <<6265, 6271>>, <<6315, 6319>>, <<6390, 6399>>, <<6431, 6431>>,
      <<6444, 6447>>, <<6460, 6463>>, <<6465, 6467>>, <<6510, 6511>>,
      <<6517, 6527>>, <<6572, 6575>>, <<6602, 6607>>, <<6619, 6621>>,
      <<6684, 6685>>, <<6751, 6751>>, <<6781, 6782>>, <<6794, 6799>>,
      <<6810, 6815>>, <<6830, 6831>>, <<6863, 6911>>, <<6989, 6991>>,
      <<7039, 7039>>, <<7156, 7163>>, <<7224, 7226>>, <<7242, 7244>>,
      <<7305, 7311>>, <<7355, 7356>>, <<7368, 7375>>, <<7419, 7423>>,
      <<7958, 7959>>, <<7966, 7967>>, <<8006, 8007>>, <<8014, 8015>>,
      <<8024, 8024>>, <<8026, 8026>>, <<8028, 8028>>, <<8030, 8030>>,
      <<8062, 8063>>, <<8117, 8117>>, <<8133, 8133>>, <<8148, 8149>>,
      <<8156, 8156>>, <<8176, 8177>>, <<8181, 8181>>, <<8191, 8207>>,
      <<8232, 8239>>, <<8287, 8303>>, <<8306, 8307>>, <<8335, 8335>>,
      <<8349, 8351>>, <<8385, 8399>>, <<8433, 8447>>, <<8588, 8591>>,
      <<9255, 9279>>, <<9291, 9311>>, <<11124, 11125>>, <<11158, 11158>>,
      <<11508, 11512>>, <<11558, 11558>>, <<11560, 11564>>, <<11566, 11567>>,
      <<11624, 11630>>, <<11633, 11646>>, <<11671, 11679>>, <<11687, 11687>>,
      <<11695, 11695>>, <<11703, 11703>>, <<11711, 11711>>, <<11719, 11719>>,
      <<11727, 11727>>, <<11735, 11735>>, <<11743, 11743>>, <<11870, 11903>>,
      <<11930, 11930>>, <<12020, 12031>>, <<12246, 12271>>, <<12284, 12288>>,
      <<12352, 12352>>, <<12439, 12440>>, <<12544, 12548>>, <<12592, 12592>>,
      <<12687, 12687>>, <<12772, 12783>>, <<12831, 12831>>, <<42125, 42127>>,
      <<42183, 42191>>, <<42540, 42559>>, <<42744, 42751>>, <<42955, 42959>>,
      <<42962, 42962>>, <<42964, 42964>>, <<42970, 42993>>, <<43053, 43055>>,
      <<43066, 43071>>, <<43128, 43135>>, <<43206, 43213>>, <<43226, 43231>>,
      <<43348, 43358>>, <<43389, 43391>>, <<43470, 43470>>, <<43482, 43485>>,
      <<43519, 43519>>, <<43575, 43583>>, <<43598, 43599>>, <<43610, 43611>>,
      <<43715, 43738>>, <<43767, 43776>>, <<43783, 43784>>, <<43791, 43792>>,
      <<43799, 43807>>, <<43815, 43815>>, <<43823, 43823>>, <<43884, 43887>>,
      <<44014, 44015>>, <<44026, 44031>>, <<55204, 55215>>, <<55239, 55242>>,
      <<55292, 63743>>, <<64110, 64111>>, <<64218, 64255>>, <<64263, 64274>>,
      <<64280, 64284>>, <<64311, 64311>>, <<64317, 64317>>, <<64319, 64319>>,
      <<64322, 64322>>, <<64325, 64325>>, <<64451, 64466>>, <<64912, 64913>>,
      <<64968, 64974>>, <<64976, 65007>>, <<65050, 65055>>, <<65107, 65107>>,
      <<65127, 65127>>, <<65132, 65135>>, <<65141, 65141>>, <<65277, 65280>>,
      <<65471, 65473>>, <<65480, 65481>>, <<65488, 65489>>, <<65496, 65497>>,
      <<65501, 65503>>, <<65511, 65511>>, <<65519, 65531>>, <<65534, 65535>>,
      <<65548, 65548>>, <<65575, 65575>>, <<65595, 65595>>, <<65598, 65598>>,
      <<65614, 65615>>, <<65630, 65663>>, <<65787, 65791>>, <<65795, 65798>>,
      <<65844, 65846>>, <<65935, 65935>>, <<65949, 65951>>, <<65953, 65999>>,
      <<66046, 66175>>, <<66205, 66207>>, <<66257, 66271>>, <<66300, 66303>>,
      <<66340, 66348>>, <<66379, 66383>>, <<66427, 66431>>, <<66462, 66462>>,
      <<66500, 66503>>, <<66518, 66559>>, <<66718, 66719>>, <<66730, 66735>>,
      <<66772, 66775>>, <<66812, 66815>>, <<66856, 66863>>, <<66916, 66926>>,
      <<66939, 66939>>, <<66955, 66955>>, <<66963, 66963>>, <<66966, 66966>>,
      <<66978, 66978>>, <<66994, 66994>>, <<67002, 67002>>, <<67005, 67071>>,
      <<67383, 67391>>, <<67414, 67423>>, <<67432, 67455>>, <<67462, 67462>>,
      <<67505, 67505>>, <<67515, 67583>>, <<67590, 67591>>, <<67593, 67593>>,
      <<67638, 67638>>, <<67641, 67643>>, <<67645, 67646>>, <<67670, 67670>>,
      <<67743, 67750>>, <<67760, 67807>>, <<67827, 67827>>, <<67830, 67834>>,
      <<67868, 67870>>, <<67898, 67902>>, <<67904, 67967>>, <<68024, 68027>>,
      <<68048, 68049>>, <<68100, 68100>>, <<68103, 68107>>, <<68116, 68116>>,
      <<68120, 68120>>, <<68150, 68151>>, <<68155, 68158>>, <<68169, 68175>>,
      <<68185, 68191>>, <<68256, 68287>>, <<68327, 68330>>, <<68343, 68351>>,
      <<68406, 68408>>, <<68438, 68439>>, <<68467, 68471>>, <<68498, 68504>>,
      <<68509, 68520>>, <<68528, 68607>>, <<68681, 68735>>, <<68787, 68799>>,
      <<68851, 68857>>, <<68904, 68911>>, <<68922, 69215>>, <<69247, 69247>>,
      <<69290, 69290>>, <<69294, 69295>>, <<69298, 69375>>, <<69416, 69423>>,
      <<69466, 69487>>, <<69514, 69551>>, <<69580, 69599>>, <<69623, 69631>>,
      <<69710, 69713>>, <<69750, 69758>>, <<69821, 69821>>, <<69827, 69839>>,
      <<69865, 69871>>, <<69882, 69887>>, <<69941, 69941>>, <<69960, 69967>>,
      <<70007, 70015>>, <<70112, 70112>>, <<70133, 70143>>, <<70162, 70162>>,
      <<70207, 70271>>, <<70279, 70279>>, <<70281, 70281>>, <<70286, 70286>>,
      <<70302, 70302>>, <<70314, 70319>>, <<70379, 70383>>, <<70394, 70399>>,
      <<70404, 70404>>, <<70413, 70414>>, <<70417, 70418>>, <<70441, 70441>>,
      <<70449, 70449>>, <<70452, 70452>>, <<70458, 70458>>, <<70469, 70470>>,
      <<70473, 70474>>, <<70478, 70479>>, <<70481, 70486>>, <<70488, 70492>>,
      <<70500, 70501>>, <<70509, 70511>>, <<70517, 70655>>, <<70748, 70748>>,
      <<70754, 70783>>, <<70856, 70863>>, <<70874, 71039>>, <<71094, 71095>>,
      <<71134, 71167>>, <<71237, 71247>>, <<71258, 71263>>, <<71277, 71295>>,
      <<71354, 71359>>, <<71370, 71423>>, <<71451, 71452>>, <<71468, 71471>>,
      <<71495, 71679>>, <<71740, 71839>>, <<71923, 71934>>, <<71943, 71944>>,
      <<71946, 71947>>, <<71956, 71956>>, <<71959, 71959>>, <<71990, 71990>>,
      <<71993, 71994>>, <<72007, 72015>>, <<72026, 72095>>, <<72104, 72105>>,
      <<72152, 72153>>, <<72165, 72191>>, <<72264, 72271>>, <<72355, 72367>>,
      <<72441, 72703>>, <<72713, 72713>>, <<72759, 72759>>, <<72774, 72783>>,
      <<72813, 72815>>, <<72848, 72849>>, <<72872, 72872>>, <<72887, 72959>>,
      <<72967, 72967>>, <<72970, 72970>>, <<73015, 73017>>, <<73019, 73019>>,
      <<73022, 73022>>, <<73032, 73039>>, <<73050, 73055>>, <<73062, 73062>>,
      <<73065, 73065>>, <<73103, 73103>>, <<73106, 73106>>, <<73113, 73119>>,
      <<73130, 73439>>, <<73465, 73647>>, <<73649, 73663>>, <<73714, 73726>>,
      <<74650, 74751>>, <<74863, 74863>>, <<74869, 74879>>, <<75076, 77711>>,
      <<77811, 77823>>, <<78895, 82943>>, <<83527, 92159>>, <<92729, 92735>>,
      <<92767, 92767>>, <<92778, 92781>>, <<92863, 92863>>, <<92874, 92879>>,
      <<92910, 92911>>, <<92918, 92927>>, <<92998, 93007>>, <<93018, 93018>>,
      <<93026, 93026>>, <<93048, 93052>>, <<93072, 93759>>, <<93851, 93951>>,
      <<94027, 94030>>, <<94088, 94094>>, <<94112, 94175>>, <<94181, 94191>>,
      <<94194, 94207>>, <<100344, 100351>>, <<101590, 101631>>,
      <<101641, 110575>>, <<110580, 110580>>, <<110588, 110588>>,
      <<110591, 110591>>, <<110883, 110927>>, <<110931, 110947>>,
      <<110952, 110959>>, <<111356, 113663>>, <<113771, 113775>>,
      <<113789, 113791>>, <<113801, 113807>>, <<113818, 113819>>,
      <<113824, 118527>>, <<118574, 118575>>, <<118599, 118607>>,
      <<118724, 118783>>, <<119030, 119039>>, <<119079, 119080>>,
      <<119155, 119162>>, <<119275, 119295>>, <<119366, 119519>>,
      <<119540, 119551>>, <<119639, 119647>>, <<119673, 119807>>,
      <<119893, 119893>>, <<119965, 119965>>, <<119968, 119969>>,
      <<119971, 119972>>, <<119975, 119976>>, <<119981, 119981>>,
      <<119994, 119994>>, <<119996, 119996>>, <<120004, 120004>>,
      <<120070, 120070>>, <<120075, 120076>>, <<120085, 120085>>,
      <<120093, 120093>>, <<120122, 120122>>, <<120127, 120127>>,
      <<120133, 120133>>, <<120135, 120137>>, <<120145, 120145>>,
      <<120486, 120487>>, <<120780, 120781>>, <<121484, 121498>>,
      <<121504, 121504>>, <<121520, 122623>>, <<122655, 122879>>,
      <<122887, 122887>>, <<122905, 122906>>, <<122914, 122914>>,
      <<122917, 122917>>, <<122923, 123135>>, <<123181, 123183>>,
      <<123198, 123199>>, <<123210, 123213>>, <<123216, 123535>>,
      <<123567, 123583>>, <<123642, 123646>>, <<123648, 124895>>,
      <<124903, 124903>>, <<124908, 124908>>, <<124911, 124911>>,
      <<124927, 124927>>, <<125125, 125126>>, <<125143, 125183>>,
      <<125260, 125263>>, <<125274, 125277>>, <<125280, 126064>>,
      <<126133, 126208>>, <<126270, 126463>>, <<126468, 126468>>,
      <<126496, 126496>>, <<126499, 126499>>, <<126501, 126502>>,
      <<126504, 126504>>, <<126515, 126515>>, <<126520, 126520>>,
      <<126522, 126522>>, <<126524, 126529>>, <<126531, 126534>>,
      <<126536, 126536>>, <<126538, 126538>>, <<126540, 126540>>,
      <<126544, 126544>>, <<126547, 126547>>, <<126549, 126550>>,
      <<126552, 126552>>, <<126554, 126554>>, <<126556, 126556>>,
      <<126558, 126558>>, <<126560, 126560>>, <<126563, 126563>>,
      <<126565, 126566>>, <<126571, 126571>>, <<126579, 126579>>,
      <<126584, 126584>>, <<126589, 126589>>, <<126591, 126591>>,
      <<126602, 126602>>, <<126620, 126624>>, <<126628, 126628>>,
      <<126634, 126634>>, <<126652, 126703>>, <<126706, 126975>>,
      <<127020, 127023>>, <<127124, 127135>>, <<127151, 127152>>,
      <<127168, 127168>>, <<127184, 127184>>, <<127222, 127231>>,
      <<127406, 127461>>, <<127491, 127503>>, <<127548, 127551>>,
      <<127561, 127567>>, <<127570, 127583>>, <<127590, 127743>>,
      <<128728, 128732>>, <<128749, 128751>>, <<128765, 128767>>,
      <<128884, 128895>>, <<128985, 128991>>, <<129004, 129007>>,
      <<129009, 129023>>, <<129036, 129039>>, <<129096, 129103>>,
      <<129114, 129119>>, <<129160, 129167>>, <<129198, 129199>>,
      <<129202, 129279>>, <<129620, 129631>>, <<129646, 129647>>,
      <<129653, 129655>>, <<129661, 129663>>, <<129671, 129679>>,
      <<129709, 129711>>, <<129723, 129727>>, <<129734, 129743>>,
      <<129754, 129759>>, <<129768, 129775>>, <<129783, 129791>>,
      <<129939, 129939>>, <<129995, 130031>>, <<130042, 131071>>,
      <<173792, 173823>>, <<177977, 177983>>, <<178206, 178207>>,
      <<183970, 183983>>, <<191457, 194559>>, <<195102, 196607>>,
      <<201547, 917759>>, <<918000, 1114111>>>>

LOWER_HEX_DIGITS == <<"0", "1", "2", "3", "4", "5", "6", "7", "8", "9",
                      "a", "b", "c", "d", "e", "f">>

RECURSIVE LowerHex(_, _)
\* n in `width` hexadecimal digits, as repr() writes them.
LowerHex(n, width) ==
    IF width = 0 THEN <<>>
    ELSE LowerHex(n \div 16, width - 1) \o <<LOWER_HEX_DIGITS[(n % 16) + 1]>>

\* What repr() writes for the character c of a str quoted with `quote`.
ReprChar(c, quote) ==
    IF c = quote \/ c = "\\" THEN <<"\\", c>>
    ELSE IF c = "\t" THEN <<"\\", "t">>
    ELSE IF c = "\n" THEN <<"\\", "n">>
    ELSE IF c = "\r" THEN <<"\\", "r">>
    ELSE CHOOSE r \in {IF n < 32 \/ n = 127 THEN <<"\\", "x">> \o LowerHex(n, 2)
                       ELSE IF n < 127 THEN <<c>>
                       ELSE IF ~InRanges(n, NONPRINTABLE_RANGES) THEN <<c>>
                       ELSE IF n <= 255 THEN <<"\\", "x">> \o LowerHex(n, 2)
                       ELSE IF n <= 65535 THEN <<"\\", "u">> \o LowerHex(n, 4)
                       ELSE <<"\\", "U">> \o LowerHex(n, 8) : n \in {Ord(c)}} : TRUE

RECURSIVE ReprChars(_, _, _)
ReprChars(s, i, quote) ==
    IF i > Len(s) THEN <<>> ELSE ReprChar(s[i], quote) \o ReprChars(s, i + 1, quote)

\* repr() of a str: in double quotes when it holds an apostrophe and no
\* double quote, in apostrophes otherwise.
ReprStr(s) ==
    LET quote == IF (\E k \in 1..Len(s) : s[k] = "'") /\ ~(\E k \in 1..Len(s) : s[k] = "\"")
                 THEN "\"" ELSE "'"
    IN  <<quote>> \o ReprChars(s, 1, quote) \o <<quote>>

RECURSIVE ReprOf(_)
RECURSIVE ReprMembers(_, _)
RECURSIVE ReprItems(_, _)
\* repr() of a parsed value.
ReprOf(val) ==
    IF val.k = "str" THEN ReprStr(val.s)
    ELSE IF val.k \in {"lit", "int", "float"} THEN val.s
    ELSE IF val.k = "arr" THEN <<"[">> \o ReprItems(val.m, 1) \o <<"]">>
    ELSE <<"{">> \o ReprMembers(val.m, 1) \o <<"}">>

\* The members of a dict from its n-th key on, as repr() writes them.
ReprMembers(m, n) ==
    With(DictKeys(m), LAMBDA keys :
    IF n > Len(keys) THEN <<>>
    ELSE ReprStr(keys[n]) \o <<":", " ">> \o ReprOf(DictGet(m, keys[n]))
         \o (IF n < Len(keys) THEN <<",", " ">> ELSE <<>>)
         \o ReprMembers(m, n + 1))

\* The items of a list from the n-th on, as repr() writes them.
ReprItems(m, n) ==
    IF n > Len(m) THEN <<>>
    ELSE ReprOf(m[n]) \o (IF n < Len(m) THEN <<",", " ">> ELSE <<>>) \o ReprItems(m, n + 1)

\* str() of a parsed value.
StrOf(val) == IF val.k = "str" THEN val.s ELSE ReprOf(val)

DECISION_KEY == <<"d", "e", "c", "i", "s", "i", "o", "n">>

\* str(llm_json.get("decision", "")).lower()
DecisionField(j) ==
    IF DictHas(j.val.m, DECISION_KEY)
    THEN Lower(StrOf(DictGet(j.val.m, DECISION_KEY)))
    ELSE <<>>

\* decision_value is never assigned: parse_llm_json raised err at line 618.
DecisionRaised(err) == [some |-> FALSE, v |-> <<>>, err |-> err]

\* A variant of decision_value that asks the JSON before the labelled line.
DecisionValueJsonFirst(reply) ==
    With(parse_llm_json(reply), LAMBDA llm_json :
    IF Raised(llm_json) THEN DecisionRaised(llm_json.err)
    ELSE With(parse_llm_judgement(reply.v).result, LAMBDA judgement :
         IF IsNonEmptyDict(llm_json) THEN Some(DecisionField(llm_json))
         ELSE IF judgement.some /\ judgement.v # <<>> THEN judgement
         ELSE None))

\* decision_value of process_case for the oracle's content `reply` (an optional
\* text): parse_llm_json is called first, and its exception ends the try block
\* before parse_llm_judgement is called.
DecisionValue(reply) ==
    With(parse_llm_json(reply), LAMBDA llm_json :
    IF Raised(llm_json) THEN DecisionRaised(llm_json.err)
    ELSE With(parse_llm_judgement(reply.v).result, LAMBDA judgement :
         IF judgement.some /\ judgement.v # <<>> THEN judgement
         ELSE IF IsNonEmptyDict(llm_json) THEN Some(DecisionField(llm_json))
         ELSE None))

RejectWords == {REJECT,
                <<"r", "e", "j", "e", "c", "t">>,
                <<"r", "e", "j", "e", "c", "t", "e", "d">>,
                <<"n", "g">>,
                <<"f", "a", "i", "l">>}

\* decision_value in {...}
IsRejectDecision(decision_value) == decision_value.some /\ decision_value.v \in RejectWords

(***************************************************************************)
(* monitor_service.py: the notification                                    *)
(***************************************************************************)
\* x or y, for an optional string x
OrElse(x, y) == IF x.some /\ x.v # <<>> THEN x.v ELSE y

CASE_ID_LABEL == <<"C", "a", "s", "e", " ", "I", "D", " ">>
MISMATCH_LABEL == <<" ", "c", "a", "s", "e", "i", "d", " ", "m", "i", "s", "m", "a", "t", "c", "h">>

\* The card of build_adaptive_card_body: its style ("attention": the mismatch
\* alert, "good": the approval, "plain": the undecided one), the case its link
\* points to, and the text of its last block.
build_adaptive_card_body(case_id, result, reason, reply_text) ==
    IF result = REJECT
    THEN [style |-> "attention", link |-> case_id,
          text |-> REASON_LABEL \o OrElse(reason, reply_text)]
    ELSE IF result = APPROVE
    THEN [style |-> "good", link |-> case_id,
          text |-> IF reason.some /\ reason.v # <<>>
                   THEN REASON_LABEL \o reason.v ELSE reply_text]
    ELSE [style |-> "plain", link |-> case_id, text |-> reply_text]

\* The message notify_teams hands to send_adaptive_card: [summary, body].
NotifyCard(case_id, reply_text) ==
    LET j == parse_llm_judgement(reply_text)
        summary == IF j.result = Some(REJECT)
                   THEN CASE_ID_LABEL \o case_id \o MISMATCH_LABEL
                   ELSE Strip(CASE_ID_LABEL \o case_id \o <<" ">> \o OrElse(j.result, <<>>))
    IN  [summary |-> summary,
         body |-> build_adaptive_card_body(case_id, OrElse(j.result, UNKNOWN),
                                           j.reason, reply_text)]

NoCard == [summary |-> <<>>, body |-> [style |-> "none", link |-> <<>>, text |-> <<>>]]

\* webhook_urls after notify_teams has dropped the empty ones.
NonEmptyUrls(urls) == SelectSeq(urls, LAMBDA u : u # <<>>)

\* webhooks of process_case
Targets(decision_value, teams) ==
    IF IsRejectDecision(decision_value)
    THEN <<teams.default, teams.reject>>
    ELSE <<teams.default>>

(***************************************************************************)
(* monitor_service.py: the monitored directory                             *)
(***************************************************************************)
\* The directory entries the model knows, in sorted() order.  The last two do
\* not name a case: a file of another name, and a sub-directory.
Case1 == <<"0", "0", "0", "0", "0", "0", "0", "1", ".", "t", "x", "t">>
Case2 == <<"0", "0", "0", "0", "0", "0", "0", "2", ".", "t", "x", "t">>
Other == <<"n", "o", "t", "e", "s", ".", "t", "x", "t">>
SubDir == <<"o", "l", "d">>
AllPaths == <<Case1, Case2, Other, SubDir>>
Paths == {AllPaths[i] : i \in 1..Len(AllPaths)}

IsFile(fs, p) == fs[p].exists /\ p # SubDir

CASE_ID_DIGITS == 8

\* case_id_re.match(name)
CaseIdMatch(name) ==
    /\ DigitsAt(name, 1, CASE_ID_DIGITS)
    /\ LiteralAt(name, CASE_ID_DIGITS + 1, <<".", "t", "x", "t">>)
    /\ AtEnd(name, CASE_ID_DIGITS + 5)

\* match.group("case_id")
CaseIdOf(name) == SubSeq(name, 1, CASE_ID_DIGITS)

\* sorted(monitor_dir.iterdir())
Listing(fs) == SelectSeq(AllPaths, LAMBDA p : fs[p].exists)

LowerType(type) ==
    IF type = "Question" THEN "question"
    ELSE IF type = "Answer" THEN "answer" ELSE "unknown"

\* llm_entries of process_case
LlmEntries(es) ==
    [i \in 1..Len(es) |->
        [type |-> LowerType(es[i].type), created_on |-> es[i].date, text |-> es[i].data]]

\* The indexes of the Answer entries.
AnswerIndexes(es) == {i \in 1..Len(es) : LowerType(es[i].type) = "answer"}

(***************************************************************************)
(* process_case, step by step                                              *)
(***************************************************************************)
WAIT_RETRIES == 5

\* How many times, in one run, an exception reaches the handler of
\* monitor_directory's loop: work_dir.mkdir, monitor_dir.iterdir, path.is_file,
\* path.stat or path.unlink raises an error the code next to it does not catch.
MaxFaults == 1

\* monitor_directory calls process_case(case_id, settings).
CallProcess ==
    /\ pc = "m_call"
    /\ calls' = [calls EXCEPT ![cur].invoked = @ + 1]
    /\ case_text' = <<>>
    /\ entries' = <<>>
    /\ llm_request' = None
    /\ llm_text' = None
    /\ webhooks' = <<>>
    /\ card' = NoCard
    /\ queue' = <<>>
    /\ posts' = <<>>
    /\ log' = <<>>
    /\ pc' = "p_mkdir"
    /\ UNCHANGED <<settings, fnVars, monVars>>

\* work_dir.mkdir, the first statement of process_case, is outside the try
\* block: its exception leaves process_case and is caught by the handler of
\* monitor_directory's loop, before processed.add(path).
Mkdir ==
    /\ pc = "p_mkdir"
    /\ \/ pc' = "p_fetch" /\ faults' = faults
       \/ /\ faults < MaxFaults
          /\ faults' = faults + 1
          /\ pc' = "m_error"
    /\ UNCHANGED <<settings, fnVars, calls, caseVars, STOP_REQUESTED, FORCE_STOP, files,
                   events, processed, todo, cur, wait>>

\* fetch_case_text and read_text: the page's text, or an exception, caught
\* by process_case's handler.
Fetch(Texts) ==
    /\ pc = "p_fetch"
    /\ \/ \E text \in Texts :
            /\ case_text' = text
            /\ pc' = "p_build"
       \/ /\ pc' = "p_except_fetch"
          /\ case_text' = case_text
    /\ UNCHANGED <<settings, fnVars, calls, monVars, entries, llm_request, llm_text,
                   webhooks, card, queue, posts, log>>

\* A variant of the checks that sends on an incomplete transcript although
\* partial mode is off.
CompletenessCheckIgnoringFlag(built, allow_partial) ==
    IF built = <<>>
    THEN [outcome |-> "skipped:no_entries", entries |-> built]
    ELSE IF LowerType(built[Len(built)].type) # "answer"
    THEN IF AnswerIndexes(built) = {}
         THEN [outcome |-> "skipped:no_answer_entry", entries |-> built]
         ELSE [outcome |-> "partial",
               entries |-> SubSeq(built, 1, Max(AnswerIndexes(built)))]
    ELSE [outcome |-> "complete", entries |-> built]

\* A variant of the checks whose search for an Answer runs from the front.
CompletenessCheckFirstAnswer(built, allow_partial) ==
    IF built = <<>>
    THEN [outcome |-> "skipped:no_entries", entries |-> built]
    ELSE IF LowerType(built[Len(built)].type) # "answer"
    THEN IF allow_partial
         THEN IF AnswerIndexes(built) = {}
              THEN [outcome |-> "skipped:no_answer_entry", entries |-> built]
              ELSE [outcome |-> "partial",
                    entries |-> SubSeq(built, 1, Min(AnswerIndexes(built)))]
         ELSE [outcome |-> "skipped:last_entry_not_answer", entries |-> built]
    ELSE [outcome |-> "complete", entries |-> built]

\* The checks of process_case on build_case_json's entries: what is logged
\* ("complete": nothing) and the entries that go on to the oracle.
CompletenessCheck(built, allow_partial) ==
    IF built = <<>>
    THEN [outcome |-> "skipped:no_entries", entries |-> built]
    ELSE IF LowerType(built[Len(built)].type) # "answer"
    THEN IF allow_partial
         THEN IF AnswerIndexes(built) = {}
              THEN [outcome |-> "skipped:no_answer_entry", entries |-> built]
              ELSE [outcome |-> "partial",
                    entries |-> SubSeq(built, 1, Max(AnswerIndexes(built)))]
         ELSE [outcome |-> "skipped:last_entry_not_answer", entries |-> built]
    ELSE [outcome |-> "complete", entries |-> built]

\* build_case_json and the completeness checks that follow it.
Build ==
    /\ pc = "p_build"
    /\ \E check \in {CompletenessCheck(
                        build_case_json(case_text, settings.max_chars, settings.log_filter),
                        settings.llm.allow_partial)} :
          /\ log' = IF check.outcome = "complete" THEN log ELSE Append(log, check.outcome)
          /\ entries' = check.entries
          /\ pc' = IF check.outcome \in {"complete", "partial"} THEN "p_write" ELSE "m_after"
    /\ UNCHANGED <<settings, fnVars, calls, monVars, case_text, llm_request, llm_text,
                   webhooks, card, queue, posts>>

\* output_path.write_text: the entries are written to the work directory, or
\* write_text raises and process_case's handler catches it.
WriteEntries ==
    /\ pc = "p_write"
    /\ pc' \in {"p_llm_send", "p_except_write"}
    /\ UNCHANGED <<settings, fnVars, calls, monVars, caseVars>>

\* call_llm: the request is posted.
LlmSend ==
    /\ pc = "p_llm_send"
    /\ llm_request' = Some(LlmEntries(entries))
    /\ calls' = [calls EXCEPT ![cur].oracle = @ + 1]
    /\ pc' = "p_llm_recv"
    /\ UNCHANGED <<settings, fnVars, monVars, case_text, entries, llm_text, webhooks,
                   card, queue, posts, log>>

\* A variant of the step in which the exception of call_llm leaves process_case
\* and reaches the handler of monitor_directory's loop.
LlmRecvEscaping(Replies) ==
    /\ pc = "p_llm_recv"
    /\ \/ \E reply \in Replies :
             /\ llm_text' = reply
             /\ pc' = "p_verdict"
       \/ /\ pc' = "m_error"
          /\ llm_text' = llm_text
    /\ UNCHANGED <<settings, fnVars, calls, monVars, case_text, entries, llm_request,
                   webhooks, card, queue, posts, log>>

\* call_llm returns the content of the oracle's reply (a text, or None for a
\* null content), or raises (transport error, raise_for_status, a reply of
\* another shape) and process_case's handler catches it.
LlmRecv(Replies) ==
    /\ pc = "p_llm_recv"
    /\ \/ \E reply \in Replies :
             /\ llm_text' = reply
             /\ pc' = "p_verdict"
       \/ /\ pc' = "p_except_llm"
          /\ llm_text' = llm_text
    /\ UNCHANGED <<settings, fnVars, calls, monVars, case_text, entries, llm_request,
                   webhooks, card, queue, posts, log>>

\* process_case reads the verdict from the reply and picks the webhooks;
\* notify_teams, when enabled and given a URL, builds the card.  A reply on
\* which parse_llm_json raises goes to process_case's handler instead.
ReadVerdict ==
    /\ pc = "p_verdict"
    /\ \E decision \in {DecisionValue(llm_text)} :
          IF "err" \in DOMAIN decision
          THEN /\ pc' = "p_except_parse"
               /\ UNCHANGED <<webhooks, card, queue>>
          ELSE \E urls \in {NonEmptyUrls(Targets(decision, settings.teams))} :
               \E notify \in {settings.teams.enabled /\ urls # <<>>} :
                  /\ webhooks' = Targets(decision, settings.teams)
                  /\ card' = IF notify THEN NotifyCard(CaseIdOf(cur), llm_text.v) ELSE NoCard
                  /\ queue' = IF notify THEN urls ELSE <<>>
                  /\ pc' = IF notify THEN "p_post" ELSE "p_log"
    /\ UNCHANGED <<settings, fnVars, calls, monVars, case_text, entries, llm_request,
                   llm_text, posts, log>>

\* send_adaptive_card's loop: requests.post is called for the next webhook,
\* and the request is on its way.
PostSend ==
    /\ pc = "p_post"
    /\ posts' = Append(posts, [url |-> Head(queue), status |-> "sent"])
    /\ pc' = "p_post_recv"
    /\ UNCHANGED <<settings, fnVars, calls, monVars, case_text, entries, llm_request,
                   llm_text, webhooks, card, queue, log>>

PostOutcomes == {"delivered", "refused", "raised"}

\* requests.post returns or raises.  A response of any status goes on to the
\* next webhook, and after the last one to the log line of process_case; an
\* exception leaves the loop and is caught by process_case's handler.
PostRecv ==
    /\ pc = "p_post_recv"
    /\ \E status \in PostOutcomes :
          /\ posts' = [posts EXCEPT ![Len(posts)].status = status]
          /\ IF status = "raised"
             THEN /\ pc' = "p_except_notify"
                  /\ queue' = queue
             ELSE /\ queue' = Tail(queue)
                  /\ pc' = IF Tail(queue) = <<>> THEN "p_log" ELSE "p_post"
    /\ UNCHANGED <<settings, fnVars, calls, monVars, case_text, entries, llm_request,
                   llm_text, webhooks, card, log>>

\* The last statement of process_case's try block: the result is logged.
LogResult ==
    /\ pc = "p_log"
    /\ log' = Append(log, "result")
    /\ pc' = "m_after"
    /\ UNCHANGED <<settings, fnVars, calls, monVars, case_text, entries, llm_request,
                   llm_text, webhooks, card, queue, posts>>

ExceptionLogs ==
    [p_except_fetch |-> "failed:fetch", p_except_write |-> "failed:write",
     p_except_llm |-> "failed:llm", p_except_parse |-> "failed:parse",
     p_except_notify |-> "failed:notify"]

\* process_case's handler: the exception is logged and process_case returns.
LogException ==
    /\ pc \in DOMAIN ExceptionLogs
    /\ log' = Append(log, ExceptionLogs[pc])
    /\ pc' = "m_after"
    /\ UNCHANGED <<settings, fnVars, calls, monVars, case_text, entries, llm_request,
                   llm_text, webhooks, card, queue, posts>>

(***************************************************************************)
(* monitor_directory, step by step                                         *)
(***************************************************************************)
\* monitor_dir.mkdir, then the set of files already there, unless they are
\* to be processed.  These statements are in no try block: an exception of
\* mkdir, iterdir or is_file leaves monitor_directory, and main with it.
MonitorStart ==
    /\ pc = "m_start"
    /\ \/ /\ processed' = IF settings.process_existing THEN {}
                          ELSE {p \in Paths : IsFile(files, p) /\ CaseIdMatch(p)}
          /\ pc' = "m_scan"
       \/ /\ pc' = "m_raised"
          /\ processed' = processed
    /\ UNCHANGED <<settings, fnVars, calls, caseVars, STOP_REQUESTED, FORCE_STOP, files,
                   events, faults, todo, cur, wait>>

\* for path in sorted(monitor_dir.iterdir()), or the exception of iterdir.
Scan ==
    /\ pc = "m_scan"
    /\ \/ /\ todo' = Listing(files)
          /\ pc' = "m_iter"
          /\ faults' = faults
       \/ /\ faults < MaxFaults
          /\ faults' = faults + 1
          /\ pc' = "m_error"
          /\ todo' = todo
    /\ UNCHANGED <<settings, fnVars, calls, caseVars, STOP_REQUESTED, FORCE_STOP, files,
                   events, processed, cur, wait>>

\* The listing is used up: time.sleep(poll_interval), then the next scan.
IterEnd ==
    /\ pc = "m_iter"
    /\ todo = <<>>
    /\ pc' = "m_scan"
    /\ UNCHANGED <<settings, fnVars, calls, caseVars, monVars>>

\* The first statement of the loop body: if STOP_REQUESTED: return
IterStop ==
    /\ pc = "m_iter"
    /\ todo # <<>>
    /\ STOP_REQUESTED
    /\ pc' = "m_returned"
    /\ UNCHANGED <<settings, fnVars, calls, caseVars, monVars>>

Skipped(p) == ~IsFile(files, p) \/ ~CaseIdMatch(p) \/ p \in processed

\* The three `continue`s: not a file, not a case file, already processed; or
\* path.is_file() raises, and the handler of the loop catches it.
IterSkip ==
    /\ pc = "m_iter"
    /\ todo # <<>>
    /\ ~STOP_REQUESTED
    /\ \/ /\ Skipped(Head(todo))
          /\ todo' = Tail(todo)
          /\ UNCHANGED <<pc, faults>>
       \/ /\ faults < MaxFaults
          /\ faults' = faults + 1
          /\ pc' = "m_error"
          /\ todo' = todo
    /\ UNCHANGED <<settings, fnVars, calls, caseVars, STOP_REQUESTED, FORCE_STOP, files,
                   events, processed, cur, wait>>

\* A case file to process: wait_for_stable_size(path) is entered.
IterTake ==
    /\ pc = "m_iter"
    /\ todo # <<>>
    /\ ~STOP_REQUESTED
    /\ ~Skipped(Head(todo))
    /\ cur' = Head(todo)
    /\ todo' = Tail(todo)
    /\ wait' = [last_size |-> -1, tries |-> 0]
    /\ pc' = "m_wait"
    /\ UNCHANGED <<settings, fnVars, calls, caseVars, STOP_REQUESTED, FORCE_STOP, files,
                   events, faults, processed>>

\* One round of wait_for_stable_size's loop (or its end, after WAIT_RETRIES
\* rounds): False sends the monitor to the next path, True to process_case.
\* path.stat() may raise another OSError than FileNotFoundError: it leaves
\* wait_for_stable_size, and the handler of monitor_directory's loop catches it.
WaitStable ==
    /\ pc = "m_wait"
    /\ \/ /\ IF wait.tries = WAIT_RETRIES THEN pc' = "m_call" /\ wait' = wait
             ELSE IF STOP_REQUESTED THEN pc' = "m_iter" /\ wait' = wait
             ELSE IF ~files[cur].exists THEN pc' = "m_iter" /\ wait' = wait
             ELSE IF files[cur].size = wait.last_size THEN pc' = "m_call" /\ wait' = wait
             ELSE /\ wait' = [last_size |-> files[cur].size, tries |-> wait.tries + 1]
                  /\ pc' = pc
          /\ faults' = faults
       \/ /\ wait.tries < WAIT_RETRIES
          /\ ~STOP_REQUESTED
          /\ faults < MaxFaults
          /\ faults' = faults + 1
          /\ pc' = "m_error"
          /\ wait' = wait
    /\ UNCHANGED <<settings, fnVars, calls, caseVars, STOP_REQUESTED, FORCE_STOP, files,
                   events, processed, todo, cur>>

\* process_case has returned: processed.add(path) and path.unlink().  A
\* file that is no longer there is passed over; another exception of unlink
\* is caught by the handler of the loop.
AfterCase ==
    /\ pc = "m_after"
    /\ processed' = processed \cup {cur}
    /\ \/ /\ files' = [files EXCEPT ![cur] = [exists |-> FALSE, size |-> 0]]
          /\ pc' = "m_check"
          /\ faults' = faults
       \/ /\ faults < MaxFaults
          /\ faults' = faults + 1
          /\ pc' = "m_error"
          /\ files' = files
    /\ UNCHANGED <<settings, fnVars, calls, caseVars, STOP_REQUESTED, FORCE_STOP, events,
                   todo, cur, wait>>

\* The second check of STOP_REQUESTED, after the case.
StopCheck ==
    /\ pc = "m_check"
    /\ pc' = IF STOP_REQUESTED THEN "m_returned" ELSE "m_iter"
    /\ UNCHANGED <<settings, fnVars, calls, caseVars, monVars>>

\* The handler of the loop: the exception is logged, and after
\* time.sleep(poll_interval) the directory is scanned again.
MonitorError ==
    /\ pc = "m_error"
    /\ log' = Append(log, "error:monitor")
    /\ pc' = "m_scan"
    /\ UNCHANGED <<settings, fnVars, calls, monVars, case_text, entries, llm_request,
                   llm_text, webhooks, card, queue, posts>>

\* Where the thread is no more: monitor_directory has returned or raised, or
\* the process was exited.
Ended == {"m_returned", "m_raised", "m_exited"}

\* handle_stop_signal, run between two steps of the thread: the first signal
\* sets STOP_REQUESTED, the second one exits the process (SystemExit is not an
\* Exception: neither try block stops it).
Signal ==
    /\ pc \notin Ended
    /\ IF STOP_REQUESTED
       THEN /\ FORCE_STOP' = TRUE
            /\ pc' = "m_exited"
            /\ UNCHANGED STOP_REQUESTED
       ELSE /\ STOP_REQUESTED' = TRUE
            /\ UNCHANGED <<pc, FORCE_STOP>>
    /\ UNCHANGED <<settings, fnVars, calls, caseVars, files, events, faults, processed, todo,
                   cur, wait>>

(***************************************************************************)
(* The outside world: files appear, grow and disappear                     *)
(***************************************************************************)
MaxEvents == 2
MaxSize == 1

Touch ==
    /\ pc \notin Ended
    /\ events < MaxEvents
    /\ events' = events + 1
    /\ \E p \in Paths :
          \/ /\ ~files[p].exists
             /\ files' = [files EXCEPT ![p] = [exists |-> TRUE, size |-> 0]]
          \/ /\ files[p].exists
             /\ files[p].size < MaxSize
             /\ p # SubDir
             /\ files' = [files EXCEPT ![p].size = @ + 1]
          \/ /\ files[p].exists
             /\ files' = [files EXCEPT ![p] = [exists |-> FALSE, size |-> 0]]
    /\ UNCHANGED <<pc, settings, fnVars, calls, caseVars, STOP_REQUESTED, FORCE_STOP,
                   faults, processed, todo, cur, wait>>

(***************************************************************************)
(* Inputs: transcripts built from lines                                    *)
(***************************************************************************)
MaxLines == 5

FenceLine == <<CHOON>>
DateText == <<"2", "0", "2", "4", "/", "0", "1", "/", "0", "1", " ", "0", "9", ":", "0", "0">>
QuestionHeader == DateText \o <<" ">> \o DEFAULT_QUESTION_KEYWORD
AnswerHeader == DateText \o <<" ">> \o DEFAULT_ANSWER_KEYWORD
BadHeader == <<"n", "o", "t", "e">>
BodyLine == <<"H", "i">>

ParseLines == {FenceLine, <<>>, QuestionHeader, BadHeader, BodyLine}

RECURSIVE SeqsUpTo(_, _)
\* Every sequence over S of length at most n.
SeqsUpTo(S, n) ==
    IF n = 0 THEN {<<>>}
    ELSE LET shorter == SeqsUpTo(S, n - 1)
         IN  shorter \cup {Append(s, x) : s \in shorter, x \in S}

\* A text file of these lines, each ended by a newline.
RECURSIVE TextOf(_)
TextOf(ls) == IF ls = <<>> THEN <<>> ELSE Head(ls) \o <<"\n">> \o TextOf(Tail(ls))

ParseTexts == {TextOf(ls) : ls \in SeqsUpTo(ParseLines, MaxLines)}

(***************************************************************************)
(* Inputs: settings                                                        *)
(***************************************************************************)
\* The defaults of load_settings for MAX_CHARS and LOG_FILTER_MAX_LINE_LEN.
MAX_CHARS_DEFAULT == 6000
MAX_LINE_LEN_DEFAULT == 200

DEFAULT_URL == <<"d">>
REJECT_URL == <<"r">>

MakeSettings(existing, max_chars, filter, max_line_len, partial, enabled, default, reject) ==
    [process_existing |-> existing,
     max_chars |-> max_chars,
     log_filter |-> [enabled |-> filter, max_line_len |-> max_line_len],
     llm |-> [allow_partial |-> partial],
     teams |-> [enabled |-> enabled, default |-> default, reject |-> reject]]

(***************************************************************************)
(* Inputs: transcripts built from records                                  *)
(***************************************************************************)
MaxRecords == 3

UnknownHeader == DateText \o <<" ">> \o <<"A", "N", LONG_S, "W", "E", "R">>

\* A record's header line and body lines.
GateRecords ==
    {[h |-> QuestionHeader, b |-> <<<<"a", "b">>>>],
     [h |-> AnswerHeader, b |-> <<<<"c", "d", "e">>>>],
     [h |-> AnswerHeader, b |-> <<>>],
     [h |-> UnknownHeader, b |-> <<<<"[", "m", "]">>, <<"f">>>>],
     [h |-> BadHeader, b |-> <<<<"g">>>>]}

RECURSIVE RecordLines(_)
RecordLines(rs) ==
    IF rs = <<>> THEN <<>>
    ELSE <<FenceLine, Head(rs).h, FenceLine>> \o Head(rs).b \o RecordLines(Tail(rs))

\* The records one after the other, each behind its two fences; `closed` adds
\* the fence after the last body.
Transcript(rs, closed) ==
    TextOf(RecordLines(rs) \o (IF closed THEN <<FenceLine>> ELSE <<>>))

GateTexts == {Transcript(rs, closed) : rs \in SeqsUpTo(GateRecords, MaxRecords),
                                       closed \in BOOLEAN}

QARecords == <<[h |-> QuestionHeader, b |-> <<<<"a", "b">>>>],
               [h |-> AnswerHeader, b |-> <<<<"c", "d", "e">>>>]>>
QAText == Transcript(QARecords, TRUE)
QText == Transcript(<<QARecords[1]>>, TRUE)

(***************************************************************************)
(* Inputs: replies built from pieces                                       *)
(***************************************************************************)
MaxPieces == 3

JSON_REJECT == <<"{", "\"", "d", "e", "c", "i", "s", "i", "o", "n", "\"", ":",
                 "\"", "R", "e", "j", "e", "c", "t", "\"", "}">>
JSON_OTHER == <<"{", "\"", "d", "e", "c", "i", "s", "i", "o", "n", "\"", ":",
                "\"", "o", "k", "\"", "}">>

\* A reply whose JSON holds an escape and a number.
JSON_SCORED == <<"{", "\"", "d", "e", "c", "i", "s", "i", "o", "n", "\"", ":",
                "\"", "f", "a", "\\", "u", "0", "0", "6", "9", "l", "\"",
                ",", "\"", "c", "o", "n", "f", "i", "d", "e", "n", "c", "e",
                "\"", ":", "0", ".", "9", "}">>

\* A reply whose JSON is a list.
JSON_LIST == <<"[", "{", "\"", "d", "e", "c", "i", "s", "i", "o", "n", "\"",
              ":", "\"", "r", "e", "j", "e", "c", "t", "\"", "}", "]">>

ReplyPieces == {RESULT_LABEL, REJECT, APPROVE, UNKNOWN,
                REASON_LABEL \o <<"n", "o">>, <<"\n">>, <<"s", "o", " ">>,
                JSON_REJECT, JSON_OTHER, JSON_SCORED, JSON_LIST}

RECURSIVE Concat(_)
Concat(ps) == IF ps = <<>> THEN <<>> ELSE Head(ps) \o Concat(Tail(ps))

\* One array more than json.loads can be inside of.
DEEP_ARRAYS == [k \in 1..(JSON_MAX_DEPTH + 1) |-> "["]

\* One digit more than int() reads.
LONG_INT == [k \in 1..(INT_MAX_STR_DIGITS + 1) |-> "1"]

\* An unterminated string inside n arrays: no JSON, and no object to look for.
\* json.loads can build its JSONDecodeError inside JSON_MAX_DEPTH - 3 arrays.
OpenString(n) == [k \in 1..n |-> "["] \o <<"\"", "a">>

\* Replies on which json.loads raises another exception than JSONDecodeError:
\* a null content, arrays too deep, an integer too long, an error too deep for
\* its JSONDecodeError, and a labelled rejection followed by an object whose
\* `decision` is an integer too long.
RaisingReplies ==
    {None, Some(DEEP_ARRAYS), Some(LONG_INT), Some(OpenString(JSON_MAX_DEPTH - 2)),
     Some(RESULT_LABEL \o REJECT
          \o <<"{", "\"", "d", "e", "c", "i", "s", "i", "o", "n", "\"", ":">>
          \o LONG_INT \o <<"}">>)}

WideReplies ==
    {Some(Concat(ps)) : ps \in SeqsUpTo(ReplyPieces, MaxPieces)}
    \cup {Some(OpenString(JSON_MAX_DEPTH - 3))} \cup RaisingReplies

\* A labelled rejection, and a reply without content.
NarrowReplies == {Some(RESULT_LABEL \o REJECT), None}

(***************************************************************************)
(* Spec: one run of monitor_directory                                      *)
(***************************************************************************)
NoFile == [exists |-> FALSE, size |-> 0]
NewFile == [exists |-> TRUE, size |-> 0]
NoCalls == [p \in Paths |-> [invoked |-> 0, oracle |-> 0]]

CaseIdle ==
    /\ case_text = <<>>
    /\ entries = <<>>
    /\ llm_request = None
    /\ llm_text = None
    /\ webhooks = <<>>
    /\ card = NoCard
    /\ queue = <<>>
    /\ posts = <<>>
    /\ log = <<>>

Init ==
    /\ pc = "m_start"
    /\ STOP_REQUESTED = FALSE
    /\ FORCE_STOP = FALSE
    /\ settings \in {MakeSettings(existing, MAX_CHARS_DEFAULT, TRUE, MAX_LINE_LEN_DEFAULT,
                                  FALSE, TRUE, DEFAULT_URL, REJECT_URL) :
                        existing \in BOOLEAN}
    /\ files \in [Paths -> {NoFile, NewFile}]
    /\ events = 0
    /\ faults = 0
    /\ processed = {}
    /\ todo = <<>>
    /\ cur = <<>>
    /\ wait = [last_size |-> -1, tries |-> 0]
    /\ CaseIdle
    /\ calls = NoCalls
    /\ arg = <<>>
    /\ out = <<>>

Next ==
    \/ MonitorStart
    \/ Scan
    \/ IterEnd
    \/ IterStop
    \/ IterSkip
    \/ IterTake
    \/ WaitStable
    \/ CallProcess
    \/ Mkdir
    \/ Fetch({QAText, QText})
    \/ Build
    \/ WriteEntries
    \/ LlmSend
    \/ LlmRecv(NarrowReplies)
    \/ ReadVerdict
    \/ PostSend
    \/ PostRecv
    \/ LogResult
    \/ LogException
    \/ AfterCase
    \/ StopCheck
    \/ MonitorError
    \/ Signal
    \/ Touch

Spec == Init /\ [][Next]_vars

(***************************************************************************)
(* SpecLive: one run of monitor_directory in which the thread keeps        *)
(* running, over one transcript and one reply                              *)
(***************************************************************************)
InitLive ==
    /\ pc = "m_start"
    /\ STOP_REQUESTED = FALSE
    /\ FORCE_STOP = FALSE
    /\ settings \in {MakeSettings(existing, MAX_CHARS_DEFAULT, TRUE, MAX_LINE_LEN_DEFAULT,
                                  FALSE, TRUE, DEFAULT_URL, REJECT_URL) :
                        existing \in BOOLEAN}
    /\ files \in [Paths -> {NoFile, NewFile}]
    /\ events = 0
    /\ faults = 0
    /\ processed = {}
    /\ todo = <<>>
    /\ cur = <<>>
    /\ wait = [last_size |-> -1, tries |-> 0]
    /\ CaseIdle
    /\ calls = NoCalls
    /\ arg = <<>>
    /\ out = <<>>

\* The steps of the thread that runs monitor_directory, process_case
\* included, but for the step at p_build.
MonitorStep ==
    \/ MonitorStart
    \/ Scan
    \/ IterEnd
    \/ IterStop
    \/ IterSkip
    \/ IterTake
    \/ WaitStable
    \/ CallProcess
    \/ Mkdir
    \/ Fetch({QAText})
    \/ WriteEntries
    \/ LlmSend
    \/ LlmRecv({Some(RESULT_LABEL \o APPROVE)})
    \/ ReadVerdict
    \/ PostSend
    \/ PostRecv
    \/ LogResult
    \/ LogException
    \/ AfterCase
    \/ StopCheck
    \/ MonitorError

NextLive ==
    \/ MonitorStep
    \/ Build
    \/ Signal
    \/ Touch

\* The thread leaves p_build: Build is enabled exactly at p_build and is the
\* thread's only step there, so this action is enabled exactly when Build is.
BuildReturns ==
    /\ pc = "p_build"
    /\ pc' \in {"p_write", "m_after"}
    /\ UNCHANGED <<settings, fnVars, calls, monVars, caseVars>>

\* The thread keeps running: sleeps end, build_case_json returns, and the
\* fetch, the oracle and the webhooks answer or fail.  Signals and file events
\* come when they come.
SpecLive == InitLive /\ [][NextLive]_vars /\ WF_vars(MonitorStep) /\ WF_vars(BuildReturns)

(***************************************************************************)
(* SpecGate: one call of process_case, over transcripts and budgets        *)
(***************************************************************************)
MaxBudget == 6

InitCase(Settings) ==
    /\ pc = "m_call"
    /\ STOP_REQUESTED = FALSE
    /\ FORCE_STOP = FALSE
    /\ settings \in Settings
    /\ files = [p \in Paths |-> IF p = Case1 THEN NewFile ELSE NoFile]
    /\ events = 0
    /\ faults = 0
    /\ processed = {}
    /\ todo = <<>>
    /\ cur = Case1
    /\ wait = [last_size |-> 0, tries |-> 1]
    /\ CaseIdle
    /\ calls = NoCalls
    /\ arg = <<>>
    /\ out = <<>>

InitGate ==
    InitCase({MakeSettings(TRUE, max_chars, filter, MAX_LINE_LEN_DEFAULT,
                           partial, TRUE, DEFAULT_URL, REJECT_URL) :
                 max_chars \in (0..MaxBudget) \cup {MAX_CHARS_DEFAULT},
                 filter \in BOOLEAN, partial \in BOOLEAN})

NextGate ==
    \/ CallProcess
    \/ Mkdir
    \/ Fetch(GateTexts)
    \/ Build
    \/ WriteEntries
    \/ LlmSend
    \/ LlmRecv({Some(JSON_OTHER)})
    \/ ReadVerdict
    \/ PostSend
    \/ PostRecv
    \/ LogResult
    \/ LogException
    \/ MonitorError

SpecGate == InitGate /\ [][NextGate]_vars

(***************************************************************************)
(* SpecVerdict: one call of process_case, over replies and webhooks        *)
(***************************************************************************)
InitVerdict ==
    InitCase({MakeSettings(TRUE, MAX_CHARS_DEFAULT, TRUE, MAX_LINE_LEN_DEFAULT,
                           FALSE, enabled, default, reject) :
                 enabled \in BOOLEAN,
                 default \in {<<>>, DEFAULT_URL},
                 reject \in {<<>>, REJECT_URL}})

NextVerdict ==
    \/ CallProcess
    \/ Mkdir
    \/ Fetch({QAText})
    \/ Build
    \/ WriteEntries
    \/ LlmSend
    \/ LlmRecv(WideReplies)
    \/ ReadVerdict
    \/ PostSend
    \/ PostRecv
    \/ LogResult
    \/ LogException
    \/ MonitorError

SpecVerdict == InitVerdict /\ [][NextVerdict]_vars

(***************************************************************************)
(* SpecParse: parse_entries applied to a text                              *)
(***************************************************************************)
InitParse ==
    /\ pc = "parse"
    /\ STOP_REQUESTED = FALSE
    /\ FORCE_STOP = FALSE
    /\ settings = MakeSettings(TRUE, MAX_CHARS_DEFAULT, TRUE, MAX_LINE_LEN_DEFAULT,
                               FALSE, TRUE, DEFAULT_URL, REJECT_URL)
    /\ files = [p \in Paths |-> NoFile]
    /\ events = 0
    /\ faults = 0
    /\ processed = {}
    /\ todo = <<>>
    /\ cur = <<>>
    /\ wait = [last_size |-> -1, tries |-> 0]
    /\ case_text \in ParseTexts
    /\ entries = <<>>
    /\ llm_request = None
    /\ llm_text = None
    /\ webhooks = <<>>
    /\ card = NoCard
    /\ queue = <<>>
    /\ posts = <<>>
    /\ log = <<>>
    /\ calls = NoCalls
    /\ arg = <<>>
    /\ out = <<>>

ParseStep ==
    /\ pc = "parse"
    /\ entries' = parse_entries(case_text)
    /\ pc' = "parsed"
    /\ UNCHANGED <<settings, fnVars, calls, monVars, case_text, llm_request, llm_text,
                   webhooks, card, queue, posts, log>>

NextParse == ParseStep

SpecParse == InitParse /\ [][NextParse]_vars

(***************************************************************************)
(* SpecRecords: parse_entries applied to a text of whole records           *)
(***************************************************************************)
LowerAnswerHeader ==
    <<"2", "0", "2", "4", "/", "0", "1", "/", "0", "2", IDEOSPACE, "1", "0", ":", "3", "0">>
    \o <<" ", "r", "e", ":", " ">> \o <<"a", "n", "s", "w", "e", "r">>

\* A record as written (header line h, body lines b) and the entry
\* parse_entries is to make of it (none for a header that does not match).
ParseRecords ==
    {[h |-> QuestionHeader, b |-> <<<<"a", "b">>>>,
      entry |-> Some([date |-> DateText, type |-> "Question", data |-> <<"a", "b">>])],
     [h |-> LowerAnswerHeader, b |-> <<<<>>, <<" ", "c">>, <<>>, <<"d", "\t">>, <<>>>>,
      entry |-> Some([date |-> <<"2", "0", "2", "4", "/", "0", "1", "/", "0", "2", " ",
                                 "1", "0", ":", "3", "0">>,
                      type |-> "Answer", data |-> <<"c", "\n", "\n", "d">>])],
     [h |-> AnswerHeader, b |-> <<>>,
      entry |-> Some([date |-> DateText, type |-> "Answer", data |-> <<>>])],
     [h |-> UnknownHeader, b |-> <<<<"[", "m", "]">>, <<"f">>>>,
      entry |-> Some([date |-> DateText, type |-> "Unknown",
                      data |-> <<"[", "m", "]", "\n", "f">>])],
     [h |-> BadHeader, b |-> <<<<"g">>>>, entry |-> None]}

\* The texts of up to MaxRecords records, each with the records it was made of.
RecordTexts ==
    {[text |-> Transcript(rs, closed), records |-> rs, closed |-> closed] :
        rs \in SeqsUpTo(ParseRecords, MaxRecords), closed \in BOOLEAN}

InitRecords ==
    /\ pc = "parse"
    /\ STOP_REQUESTED = FALSE
    /\ FORCE_STOP = FALSE
    /\ settings = MakeSettings(TRUE, MAX_CHARS_DEFAULT, TRUE, MAX_LINE_LEN_DEFAULT,
                               FALSE, TRUE, DEFAULT_URL, REJECT_URL)
    /\ files = [p \in Paths |-> NoFile]
    /\ events = 0
    /\ faults = 0
    /\ processed = {}
    /\ todo = <<>>
    /\ cur = <<>>
    /\ wait = [last_size |-> -1, tries |-> 0]
    /\ case_text \in {t.text : t \in RecordTexts}
    /\ entries = <<>>
    /\ llm_request = None
    /\ llm_text = None
    /\ webhooks = <<>>
    /\ card = NoCard
    /\ queue = <<>>
    /\ posts = <<>>
    /\ log = <<>>
    /\ calls = NoCalls
    /\ arg = <<>>
    /\ out = <<>>

NextRecords == ParseStep

SpecRecords == InitRecords /\ [][NextRecords]_vars

(***************************************************************************)
(* Functions applied on their own: the argument is arg, the results out    *)
(***************************************************************************)
InitApply(first, Settings, Args) ==
    /\ pc = first
    /\ STOP_REQUESTED = FALSE
    /\ FORCE_STOP = FALSE
    /\ settings \in Settings
    /\ files = [p \in Paths |-> NoFile]
    /\ events = 0
    /\ faults = 0
    /\ processed = {}
    /\ todo = <<>>
    /\ cur = <<>>
    /\ wait = [last_size |-> -1, tries |-> 0]
    /\ case_text = <<>>
    /\ entries = <<>>
    /\ llm_request = None
    /\ llm_text = None
    /\ webhooks = <<>>
    /\ card = NoCard
    /\ queue = <<>>
    /\ posts = <<>>
    /\ log = <<>>
    /\ calls = NoCalls
    /\ arg \in Args
    /\ out = <<>>

(***************************************************************************)
(* SpecClean: the cleaning of build_case_json's loop applied to a body     *)
(***************************************************************************)
MaxBodyLines == 3
SHORT_LINE_LEN == 4

NBSP == "U+00A0"

\* Lines of a body: blank ones, meta lines (one of them JSON-like as well),
\* a log line, a JSON-like line, plain lines, a line longer than
\* SHORT_LINE_LEN, and a piece that a form feed breaks into a meta line and a
\* plain line, both with a no-break space that strip() removes.
CleanLines ==
    {<<>>, <<" ">>, <<"[", "m", "]">>, <<" ", "[", "m", "]">>,
     <<LBRACKET_FW, "m", RBRACKET_FW>>, <<"I", "N", "F", "O", " ", "x">>,
     <<"{", "j", "}">>, <<"a", "b">>, <<" ", "a", "b", " ">>,
     <<"a", "b", "c", "d", "e", "f">>,
     <<NBSP, "[", "m", "]", "\f", "a", NBSP>>}

CleanBodies == {JoinLines(ls) : ls \in SeqsUpTo(CleanLines, MaxBodyLines)}

CleanSettings ==
    {MakeSettings(TRUE, MAX_CHARS_DEFAULT, filter, max_line_len, FALSE, TRUE,
                  DEFAULT_URL, REJECT_URL) :
        filter \in BOOLEAN, max_line_len \in {SHORT_LINE_LEN, MAX_LINE_LEN_DEFAULT}}

InitClean == InitApply("clean", CleanSettings, CleanBodies)

\* Each pass on the body, and the loop body's composition of them.
CleanOnce ==
    /\ pc = "clean"
    /\ out' = [meta |-> MetaPass(arg),
               logs |-> LogPass(arg, settings.log_filter),
               once |-> CleanedData(arg, settings.log_filter)]
    /\ pc' = "cleaned"
    /\ UNCHANGED <<settings, arg, calls, caseVars, monVars>>

\* The composition on its own result.
CleanAgain ==
    /\ pc = "cleaned"
    /\ out' = [meta |-> out.meta, logs |-> out.logs, once |-> out.once,
               twice |-> CleanedData(out.once, settings.log_filter)]
    /\ pc' = "cleaned_twice"
    /\ UNCHANGED <<settings, arg, calls, caseVars, monVars>>

NextClean == CleanOnce \/ CleanAgain

SpecClean == InitClean /\ [][NextClean]_vars

(***************************************************************************)
(* SpecTrim: trim_entries applied to a list of entries                     *)
(***************************************************************************)
MaxEntries == 3
MaxTrimBudget == 6

TrimData == {<<>>, <<"a">>, <<"b", "c", "d">>, <<"e", "f", "g", "h">>}

TrimEntries == {[date |-> DateText, type |-> ty, data |-> d] :
                    ty \in {"Question", "Answer"}, d \in TrimData}

TrimSettings ==
    {MakeSettings(TRUE, max_chars, TRUE, MAX_LINE_LEN_DEFAULT, FALSE, TRUE,
                  DEFAULT_URL, REJECT_URL) : max_chars \in 0..MaxTrimBudget}

InitTrim == InitApply("trim", TrimSettings, SeqsUpTo(TrimEntries, MaxEntries))

TrimStep ==
    /\ pc = "trim"
    /\ out' = trim_entries(arg, settings.max_chars)
    /\ pc' = "trimmed"
    /\ UNCHANGED <<settings, arg, calls, caseVars, monVars>>

NextTrim == TrimStep

SpecTrim == InitTrim /\ [][NextTrim]_vars

(***************************************************************************)
(* SpecTrimCleaned: trim_entries as build_case_json calls it, on the        *)
(* entries its loop has kept: none of them has an empty body                *)
(***************************************************************************)
CleanedEntries == {e \in TrimEntries : e.data # <<>>}

InitTrimCleaned == InitApply("trim", TrimSettings, SeqsUpTo(CleanedEntries, MaxEntries))

SpecTrimCleaned == InitTrimCleaned /\ [][NextTrim]_vars

(***************************************************************************)
(* SpecType: the header search and type decision of parse_entries for one  *)
(* header line, over keyword lists                                         *)
(***************************************************************************)
MaxKeywords == 2

\* QUESTION_KEYWORD / ANSWER_KEYWORD as normalize_keywords leaves them: lists
\* of one to MaxKeywords keywords.
KeywordLists ==
    SeqsUpTo({DEFAULT_QUESTION_KEYWORD, DEFAULT_ANSWER_KEYWORD,
              <<"a", "n", "s", "w", "e", "r">>, <<"R", "e">>}, MaxKeywords) \ {<<>>}

\* A header whose keyword is written with the dotless i: re.IGNORECASE accepts
\* it for the I of QUESTION, lower() leaves it as it is.
DotlessHeader == DateText \o <<" ">> \o <<"Q", "U", "E", "S", "T", "U+0131", "O", "N">>

\* Header lines, each with the date token written in it (after the
\* ideographic space is replaced).
TypeHeaders ==
    {[header |-> QuestionHeader, date |-> DateText],
     [header |-> DateText \o <<" ">> \o <<"q", "u", "e", "s", "t", "i", "o", "n">>,
      date |-> DateText],
     [header |-> AnswerHeader, date |-> DateText],
     [header |-> LowerAnswerHeader,
      date |-> <<"2", "0", "2", "4", "/", "0", "1", "/", "0", "2", " ",
                 "1", "0", ":", "3", "0">>],
     [header |-> UnknownHeader, date |-> DateText],
     [header |-> DotlessHeader, date |-> DateText],
     [header |-> BadHeader, date |-> <<>>]}

TypeArgs ==
    {[header |-> h.header, date |-> h.date, question_keyword |-> qs, answer_keyword |-> as] :
        h \in TypeHeaders, qs \in KeywordLists, as \in KeywordLists}

InitType ==
    InitApply("header",
              {MakeSettings(TRUE, MAX_CHARS_DEFAULT, TRUE, MAX_LINE_LEN_DEFAULT, FALSE, TRUE,
                            DEFAULT_URL, REJECT_URL)},
              TypeArgs)

\* header_re.search(header_norm) and, on a match, the entry's date and type.
ClassifyStep ==
    /\ pc = "header"
    /\ \E m \in {HeaderSearchFor(NormalizeHeader(arg.header),
                                 arg.question_keyword \o arg.answer_keyword)} :
          out' = IF m.ok
                 THEN Some([date |-> m.date, raw |-> m.type,
                            type |-> ClassifyType(m.type, arg.question_keyword,
                                                  arg.answer_keyword)])
                 ELSE None
    /\ pc' = "classified"
    /\ UNCHANGED <<settings, arg, calls, caseVars, monVars>>

NextType == ClassifyStep

SpecType == InitType /\ [][NextType]_vars

(***************************************************************************)
(* Properties of one call of process_case (SpecGate)                       *)
(***************************************************************************)
Logged(outcome) == \E i \in 1..Len(log) : log[i] = outcome

\* The page was fetched and the completeness checks have run.
GateDone ==
    /\ pc \in {"p_write", "p_llm_send", "p_llm_recv", "p_verdict", "p_post", "p_post_recv",
              "p_log", "p_except_write", "p_except_llm", "p_except_parse",
              "p_except_notify", "m_after"}
    /\ ~Logged("failed:fetch")

\* output_path.write_text raised.
WriteFailed == pc = "p_except_write" \/ Logged("failed:write")

LastIsAnswer(es) == es # <<>> /\ LowerType(es[Len(es)].type) = "answer"

\* C1 (as stated): whenever the last entry extracted from the fetched
\* transcript is an Answer, process_case goes on to judgement, whatever the
\* budget and the partial flag: unless it failed to write the entries to the
\* work directory, it is on its way to the oracle request or has sent it.
C1_AnswerLastProceeds ==
    (GateDone /\ LastIsAnswer(parse_entries(case_text)) /\ ~WriteFailed)
        => (pc \in {"p_write", "p_llm_send"} \/ calls[cur].oracle = 1)

\* C2: whenever build_case_json's entry list is empty, or its last entry is
\* not an Answer while partial mode is off, process_case has ended with the
\* matching skipped outcome and nothing else logged (no exception), with no
\* oracle request sent and no notification built or posted.
C2_GateBeforeOracle ==
    GateDone =>
    \A built \in {build_case_json(case_text, settings.max_chars, settings.log_filter)} :
        (built = <<>> \/ (~LastIsAnswer(built) /\ ~settings.llm.allow_partial))
            => /\ pc = "m_after"
               /\ log = <<IF built = <<>> THEN "skipped:no_entries"
                          ELSE "skipped:last_entry_not_answer">>
               /\ llm_request = None
               /\ calls[cur].oracle = 0
               /\ card = NoCard
               /\ posts = <<>>

\* C2's case: a transcript with entries, the last one not an Answer, partial
\* mode off, skipped.
C2_Witness ==
    /\ pc = "m_after"
    /\ ~settings.llm.allow_partial
    /\ entries # <<>>
    /\ ~LastIsAnswer(entries)
    /\ log = <<"skipped:last_entry_not_answer">>

\* C3: with partial mode on and a last entry that is not an Answer, the
\* entries that go to the oracle are the prefix of build_case_json's list that
\* ends at its last Answer, unchanged: process_case keeps that prefix, logs
\* the partial outcome, and the request, once sent, carries exactly that
\* prefix; as long as no request is sent, process_case is on its way to send
\* it or has failed to write the entries to the work directory.  With no
\* Answer in the list the case is skipped and no oracle request is sent.
C3_PartialPrefix ==
    (GateDone /\ settings.llm.allow_partial) =>
    \A built \in {build_case_json(case_text, settings.max_chars, settings.log_filter)} :
        (built # <<>> /\ ~LastIsAnswer(built))
            => IF \E i \in 1..Len(built) : LowerType(built[i].type) = "answer"
               THEN \E k \in 1..Len(built) :
                       /\ LowerType(built[k].type) = "answer"
                       /\ \A j \in (k + 1)..Len(built) : LowerType(built[j].type) # "answer"
                       /\ entries = SubSeq(built, 1, k)
                       /\ log[1] = "partial"
                       /\ IF llm_request.some
                          THEN /\ llm_request = Some(LlmEntries(SubSeq(built, 1, k)))
                               /\ calls[cur].oracle = 1
                          ELSE /\ calls[cur].oracle = 0
                               /\ pc \in {"p_write", "p_llm_send"} \/ WriteFailed
               ELSE /\ pc = "m_after"
                    /\ log = <<"skipped:no_answer_entry">>
                    /\ llm_request = None
                    /\ calls[cur].oracle = 0

\* C3's case: a request of two entries, fewer than build_case_json returned.
C3_Witness ==
    /\ llm_request.some
    /\ Len(llm_request.v) = 2
    /\ log # <<>> /\ log[1] = "partial"
    /\ Len(build_case_json(case_text, settings.max_chars, settings.log_filter)) = 3

(***************************************************************************)
(* Properties of the verdict and the notification (SpecVerdict)            *)
(***************************************************************************)
\* The oracle has replied and process_case has gone through the reply.
Answered ==
    /\ llm_request.some
    /\ pc \in {"p_post", "p_post_recv", "p_log", "p_except_parse", "p_except_notify",
              "m_after"}
    /\ ~Logged("failed:llm")

\* parse_llm_json raised on the reply.
ParseFailed == pc = "p_except_parse" \/ Logged("failed:parse")

\* The oracle has replied and process_case has read the reply.
Replied == Answered /\ ~ParseFailed

\* The word of the reply's labelled result line, if it has one.
ResultLine(reply) == IF reply.some THEN parse_llm_judgement(reply.v).result ELSE None

\* The reply's JSON is an object with a `decision` field.
HasJsonDecision(reply) ==
    With(parse_llm_json(reply), LAMBDA j :
    j.ok /\ j.val.k = "obj" /\ DictHas(j.val.m, DECISION_KEY))

\* The field's text in lower case.
JsonDecision(reply) == Lower(StrOf(DictGet(parse_llm_json(reply).val.m, DECISION_KEY)))

EnglishRejectWords == {<<"r", "e", "j", "e", "c", "t">>,
                       <<"r", "e", "j", "e", "c", "t", "e", "d">>,
                       <<"n", "g">>,
                       <<"f", "a", "i", "l">>}

RejectTargeted == Len(webhooks) = 2 /\ webhooks[2] = settings.teams.reject

Embeds(text, piece) ==
    \E i \in 0..(Len(text) - Len(piece)) : SubSeq(text, i + 1, i + Len(piece)) = piece

C5_FramingFollowsRouting ==
    (Replied /\ card # NoCard) =>
        /\ card.body.link = CaseIdOf(cur)
        /\ Embeds(card.body.text, OrElse(parse_llm_judgement(llm_text.v).reason, llm_text.v))
        /\ IF RejectTargeted
           THEN /\ card.body.style = "attention"
                /\ card.summary = CASE_ID_LABEL \o CaseIdOf(cur) \o MISMATCH_LABEL
           ELSE IF DecisionValue(llm_text) = Some(APPROVE)
           THEN card.body.style = "good"
           ELSE card.body.style = "plain"

\* C6 (as stated): once the notification is over, a post was attempted to
\* every selected endpoint, whatever happened to the others.
C6_IndependentDispatch ==
    (pc = "m_after" /\ card # NoCard) =>
        \A i \in 1..Len(NonEmptyUrls(webhooks)) :
            \E k \in 1..Len(posts) : posts[k].url = NonEmptyUrls(webhooks)[i]

\* What an unreadable reply leads to when it does not fail the case: the
\* decision is empty (logged as unknown), the default endpoint alone is
\* targeted, and the card, sent whenever notifying is enabled and the default
\* endpoint is set, is the undecided one with the raw reply as its text.
ReadAsUnknown ==
    /\ ~ParseFailed
    /\ OrElse(DecisionValue(llm_text), UNKNOWN) = UNKNOWN
    /\ webhooks = <<settings.teams.default>>
    /\ \A k \in 1..Len(posts) : posts[k].url = settings.teams.default
    /\ (card # NoCard) <=> (settings.teams.enabled /\ settings.teams.default # <<>>)
    /\ (card # NoCard) =>
          /\ card.body.style = "plain"
          /\ card.body.text = llm_text.v
          /\ card.summary = CASE_ID_LABEL \o CaseIdOf(cur)
    /\ (pc = "m_after" /\ ~Logged("failed:notify")) => log = <<"result">>

\* C7 (as stated): a reply from which neither a labelled result line nor a
\* JSON `decision` field can be read does not fail the case: the verdict is
\* unknown, the default endpoint alone is targeted, and the card is the
\* undecided one with the raw reply as its text.
C7_UnreadableReply ==
    (Answered /\ ResultLine(llm_text) = None /\ ~HasJsonDecision(llm_text)) => ReadAsUnknown

\* What does hold: so it is for every such reply on which parse_llm_json
\* returns.
UnreadableReplyUnlessRaised ==
    (Replied /\ ResultLine(llm_text) = None /\ ~HasJsonDecision(llm_text)) => ReadAsUnknown

(***************************************************************************)
(* Properties of a run of monitor_directory (Spec)                         *)
(***************************************************************************)
\* C8: a failed oracle call ends the case inside process_case: the exception
\* goes to process_case's handler with nothing posted, the handler logs it and
\* process_case returns; monitor_directory then marks the path processed and
\* goes on with the same listing (or returns, if a stop was requested), or,
\* when the file cannot be unlinked, with a new scan.
C8_OracleFailureIsLocal ==
    [][/\ (pc = "p_llm_recv" /\ pc' \notin {"p_llm_recv", "m_exited", "p_verdict"})
            => /\ pc' = "p_except_llm"
               /\ card' = NoCard /\ posts' = <<>> /\ log' = log
       /\ (pc = "p_except_llm" /\ pc' \notin {"p_except_llm", "m_exited"})
            => /\ pc' = "m_after"
               /\ log' = Append(log, "failed:llm")
               /\ card' = NoCard /\ posts' = <<>>
       /\ (pc = "m_after" /\ pc' \notin {"m_after", "m_exited"} /\ Logged("failed:llm"))
            => /\ posts = <<>>
               /\ cur \in processed'
               /\ todo' = todo
               /\ pc' \in {"m_check", "m_error"}
       /\ (pc = "m_check" /\ pc' \notin {"m_check", "m_exited"})
            => /\ pc' = IF STOP_REQUESTED THEN "m_returned" ELSE "m_iter"
               /\ todo' = todo
       /\ (pc = "m_error" /\ pc' \notin {"m_error", "m_exited"})
            => pc' = "m_scan"]_vars

\* C8's case: the oracle call for the first case file failed, and
\* process_case is about to be called for the second one.
C8_Witness ==
    /\ pc = "m_call"
    /\ cur = Case2
    /\ Case1 \in processed
    /\ calls[Case1].oracle = 1
    /\ log = <<"failed:llm">>
    /\ posts = <<>>

\* C9 (as stated): in one run process_case is called at most once for a case
\* file path, and at most one oracle request is sent for it.
C9_NothingRetried ==
    \A p \in Paths : calls[p].invoked <= 1 /\ calls[p].oracle <= 1

\* What does hold: at most one oracle request is sent for a path, and
\* process_case is not called for a path that is marked processed.
NothingRetriedOnceProcessed ==
    /\ \A p \in Paths : calls[p].oracle <= 1
    /\ pc = "m_call" => cur \notin processed

(***************************************************************************)
(* Properties of parse_entries (SpecParse)                                 *)
(***************************************************************************)
\* The lines of the text as parse_entries reads them.
TextLines ==
    LET raw == SplitLines(case_text)
    IN  [i \in 1..Len(raw) |-> RStripCRLF(raw[i])]

FenceIndexes == {i \in 1..Len(TextLines) : IsSeparator(TextLines[i])}

\* C10 (as stated): a text with fewer than three fence lines has no entry, and
\* no entry comes from a trailing record without its closing fence: every
\* entry has a divider fence and a closing fence, the latter its own or the
\* opening fence of the next record, so n entries take 2n + 1 fence lines.
C10_ThreeFences ==
    pc = "parsed" =>
        /\ Cardinality(FenceIndexes) < 3 => entries = <<>>
        /\ entries # <<>> => 2 * Len(entries) + 1 <= Cardinality(FenceIndexes)

\* C10 (amended): a text with fewer than two fence lines has no entry, and n
\* entries take at least 2n fence lines (a trailing record without its divider
\* fence gives no entry); a text with exactly two fence lines, a trailing
\* record without its closing fence, has an entry exactly when the first
\* non-empty line after the first fence is a header before the second fence,
\* and the entry's body is then the rest of the text, stripped.
C10_TwoFences ==
    pc = "parsed" =>
        /\ Cardinality(FenceIndexes) < 2 => entries = <<>>
        /\ 2 * Len(entries) <= Cardinality(FenceIndexes)
        /\ Cardinality(FenceIndexes) = 2 =>
              \A j \in FenceIndexes : \A k \in FenceIndexes \ {j} : j < k =>
                 \A h \in {SkipBlank(TextLines, j + 1)} :
                    IF h < k /\ HeaderSearch(NormalizeHeader(TextLines[h])).ok
                    THEN /\ Len(entries) = 1
                         /\ entries[1].date = HeaderSearch(NormalizeHeader(TextLines[h])).date
                         /\ entries[1].data =
                               Strip(JoinLines(SubSeq(TextLines, k + 1, Len(TextLines))))
                    ELSE entries = <<>>

\* C10's case: the text has two fence lines, and the lines after the second
\* one are the body of its one entry.
C10_Witness ==
    /\ pc = "parsed"
    /\ Cardinality(FenceIndexes) = 2
    /\ Len(entries) = 1
    /\ entries[1].type = "Question"
    /\ entries[1].data = BodyLine \o <<"\n">> \o BodyLine

(***************************************************************************)
(* Properties of parse_entries on whole records (SpecRecords)              *)
(***************************************************************************)
\* The texts of RecordTexts that the parsed text is (one, as the records show
\* in the text).
ParsedRecordTexts == {t \in RecordTexts : pc = "parsed" /\ t.text = case_text}

AllHeadersMatch(rs) == \A i \in 1..Len(rs) : rs[i].entry.some

\* C11 (as stated): in a text of well-formed records (opening fence, matching
\* header, divider fence, body lines, closing fence) every record yields exactly
\* one entry, whose body is the record's body lines joined by newlines, verbatim.
C11_BodyVerbatim ==
    \A t \in ParsedRecordTexts :
        (t.closed /\ AllHeadersMatch(t.records)) =>
            /\ Len(entries) = Len(t.records)
            /\ \A i \in 1..Len(t.records) : entries[i].data = JoinLines(t.records[i].b)

\* C11 (amended): in a text of well-formed records every record yields exactly
\* one entry, in order, whose body is the record's body lines joined by
\* newlines with the leading and trailing whitespace (blank lines included)
\* stripped.
C11_BodyStripped ==
    \A t \in ParsedRecordTexts :
        (t.closed /\ AllHeadersMatch(t.records)) =>
            /\ Len(entries) = Len(t.records)
            /\ \A i \in 1..Len(t.records) :
                  /\ entries[i].data = Strip(JoinLines(t.records[i].b))
                  /\ entries[i] = t.records[i].entry.v

\* C11's case: a well-formed record whose body begins and ends with blank
\* lines and has an indented line: the entry's body is the stripped text.
C11_Witness ==
    \E t \in ParsedRecordTexts :
        /\ t.closed
        /\ Len(t.records) = 1
        /\ t.records[1].h = LowerAnswerHeader
        /\ entries = <<[date |-> t.records[1].entry.v.date, type |-> "Answer",
                        data |-> <<"c", "\n", "\n", "d">>]>>

(***************************************************************************)
(* Properties of the cleaning of an entry body (SpecClean)                 *)
(***************************************************************************)
\* C12: cleaning is idempotent: for every body, cleaning the cleaned body
\* (meta-line removal with fallback, then log removal with fallback when
\* the filter is enabled) gives the cleaned body again.
C12_CleanIdempotent ==
    pc = "cleaned_twice" => out.twice = out.once

\* A body that cleaning changed, under the enabled filter, cleaned twice.
C12_Witness ==
    /\ pc = "cleaned_twice"
    /\ settings.log_filter.enabled
    /\ out.once # arg
    /\ out.once # <<>>
    /\ out.twice = out.once

\* The lines each pass drops: the tests of the loops of clean_entry_data and
\* remove_logs, read off the text line by line.
DroppedByMeta(line) == Strip(line) = <<>> \/ IsMetaLine(Strip(line))

DroppedByLogs(line, log_filter) ==
    \/ Strip(line) = <<>>
    \/ IsLogLine(Strip(line))
    \/ IsJsonLine(Strip(line))
    \/ Len(Strip(line)) > log_filter.max_line_len

AllDroppedByMeta(text) ==
    \A line \in {SplitLines(text)[i] : i \in 1..Len(SplitLines(text))} : DroppedByMeta(line)

AllDroppedByLogs(text, log_filter) ==
    \A line \in {SplitLines(text)[i] : i \in 1..Len(SplitLines(text))} :
        DroppedByLogs(line, log_filter)

\* C13: cleaning never empties a non-empty body: the meta-line pass, the log
\* pass and their composition each return a non-empty text, and a pass that
\* would drop every line returns its input unchanged.
C13_NeverEmpties ==
    (pc = "cleaned" /\ arg # <<>>) =>
        /\ out.meta # <<>>
        /\ out.logs # <<>>
        /\ out.once # <<>>
        /\ AllDroppedByMeta(arg) => out.meta = arg
        /\ AllDroppedByLogs(arg, settings.log_filter) => out.logs = arg
        /\ out.once = IF ~settings.log_filter.enabled THEN out.meta
                      ELSE IF AllDroppedByLogs(out.meta, settings.log_filter) THEN out.meta
                      ELSE remove_logs(out.meta, settings.log_filter)

\* A body of meta lines only, kept whole by the meta-line pass, of which the
\* log pass then drops some lines and keeps others.
C13_Witness ==
    /\ pc = "cleaned"
    /\ settings.log_filter.enabled
    /\ arg # <<>>
    /\ Strip(arg) # <<>>
    /\ AllDroppedByMeta(arg)
    /\ out.meta = arg
    /\ out.once # out.meta
    /\ out.once # <<>>

(***************************************************************************)
(* Properties of trim_entries (SpecTrim)                                   *)
(***************************************************************************)
RECURSIVE TotalData(_)
\* The characters of the bodies of a list of entries.
TotalData(es) == IF es = <<>> THEN 0 ELSE Len(Head(es).data) + TotalData(Tail(es))

WithData(es) == SelectSeq(es, LAMBDA e : e.data # <<>>)

IsPrefix(s, t) == Len(s) <= Len(t) /\ s = SubSeq(t, 1, Len(s))

\* out is the entries of es in order, each with its date and type and a
\* non-empty prefix of its data, all but the last with all of its data.
KeepsPrefixes(es) ==
    /\ Len(out) <= Len(es)
    /\ \A i \in 1..Len(out) :
        /\ out[i].date = es[i].date
        /\ out[i].type = es[i].type
        /\ out[i].data # <<>>
        /\ IsPrefix(out[i].data, es[i].data)
        /\ i < Len(out) => out[i].data = es[i].data

\* C14: for a budget B, the bodies trim_entries returns total at most B
\* characters; when the non-empty bodies given total at least B they total
\* exactly B: the entries before the first one that meets or exceeds B are
\* kept whole, that one is cut to the prefix that fills the budget, and every
\* later entry is dropped.
C14_TrimFillsBudget ==
    pc = "trimmed" =>
        /\ TotalData(out) <= settings.max_chars
        /\ KeepsPrefixes(WithData(arg))
        /\ TotalData(arg) >= settings.max_chars => TotalData(out) = settings.max_chars

\* Three bodies of four characters and a budget of six: four and two are kept.
C14_Witness ==
    /\ pc = "trimmed"
    /\ settings.max_chars = 6
    /\ Len(arg) = 3
    /\ \A i \in 1..3 : Len(arg[i].data) = 4
    /\ Len(out) = 2
    /\ out[1].data = arg[1].data
    /\ out[2].data = <<"e", "f">>

\* C15: when the bodies of the entries build_case_json hands to trim_entries
\* total less than the budget, trim_entries returns the list it was given,
\* unchanged: as many entries, in the same order, each with its date, type and
\* body.
C15_BelowBudgetUnchanged ==
    (pc = "trimmed" /\ TotalData(arg) < settings.max_chars) => out = arg

\* Three entries whose bodies total one character less than the budget.
C15_Witness ==
    /\ pc = "trimmed"
    /\ Len(arg) = 3
    /\ TotalData(arg) = settings.max_chars - 1
    /\ out = arg

(***************************************************************************)
(* Properties of the entry list handed to the oracle (SpecGate)            *)
(***************************************************************************)
\* The transcripts of SpecGate, each with the records it was written from.
GateTranscripts ==
    {[text |-> Transcript(rs, closed), records |-> rs] :
        rs \in SeqsUpTo(GateRecords, MaxRecords), closed \in BOOLEAN}

\* The type a record's header line gives it, as the oracle is sent it.
HeaderType(h) ==
    IF h = QuestionHeader THEN "question"
    ELSE IF h = AnswerHeader THEN "answer"
    ELSE IF h = UnknownHeader THEN "unknown" ELSE "none"

\* The entry e of a request is made of the record r: its date, its type, and
\* a non-empty prefix of its cleaned body.
MadeOf(e, r) ==
    /\ e.created_on = DateText
    /\ e.type = HeaderType(r.h)
    /\ e.text # <<>>
    /\ IsPrefix(e.text, CleanedData(Strip(JoinLines(r.b)), settings.log_filter))

RECURSIVE InOrderOf(_, _, _, _)
\* The entries of req from i on are made of records of rs from j on, in order,
\* each record used at most once.
InOrderOf(req, i, rs, j) ==
    IF i > Len(req) THEN TRUE
    ELSE IF j > Len(rs) THEN FALSE
    ELSE \/ MadeOf(req[i], rs[j]) /\ InOrderOf(req, i + 1, rs, j + 1)
         \/ InOrderOf(req, i, rs, j + 1)

\* C16: entry order is never permuted: the entries handed to the oracle are,
\* in order, made of records of the source text in the order they appear
\* there, each with its record's date and type; none is moved or duplicated.
C16_OrderPreserved ==
    llm_request.some =>
        \A t \in {u \in GateTranscripts : u.text = case_text} :
            InOrderOf(llm_request.v, 1, t.records, 1)

\* A request of a question and an answer whose text was cut by the budget,
\* from a transcript of three records, the one between them left out.
C16_Witness ==
    /\ llm_request.some
    /\ Len(llm_request.v) = 2
    /\ llm_request.v[1].type = "question"
    /\ llm_request.v[2].type = "answer"
    /\ llm_request.v[2].text = <<"c">>
    /\ \E t \in {u \in GateTranscripts : u.text = case_text} :
          /\ Len(t.records) = 3
          /\ t.records[2].h \in {BadHeader, UnknownHeader}

(***************************************************************************)
(* Properties of a stop request (Spec)                                     *)
(***************************************************************************)
\* The positions from the call of process_case to the last step inside it.
InCase == {"m_call", "p_mkdir", "p_fetch", "p_build", "p_write", "p_llm_send",
           "p_llm_recv", "p_verdict", "p_post", "p_post_recv", "p_log", "p_except_fetch",
           "p_except_write", "p_except_llm", "p_except_parse", "p_except_notify"}

\* C17 (as stated): a single stop request never interrupts a case: with the
\* stop flag set and no second signal, a step taken from the call of
\* process_case or inside it stays inside it or is its end; and when the
\* monitor returns, every path process_case was called for is marked
\* processed.
C17_StopWaitsForCase ==
    [][/\ (pc \in InCase /\ STOP_REQUESTED' /\ ~FORCE_STOP')
            => pc' \in InCase \cup {"m_after", "m_error"}
       /\ (pc' = "m_returned")
            => \A p \in Paths : calls'[p].invoked > 0 => p \in processed']_vars

\* What does hold: with the stop flag set and no second signal the steps of a
\* case are the ones it takes without the flag, and process_case is left by
\* its return or by the exception of its first statement.
StopNeverCutsACase ==
    [][(pc \in InCase /\ STOP_REQUESTED' /\ ~FORCE_STOP')
            => /\ pc' \in InCase \cup {"m_after", "m_error"}
               /\ pc' = "m_error" => pc = "p_mkdir"]_vars

(***************************************************************************)
(* Properties of the precedence of the two readings of a reply             *)
(* (SpecVerdict)                                                           *)
(***************************************************************************)
\* C18 (as stated): the JSON `decision` field is used only if the reply has
\* no labelled result line: a reply with a result line is routed by it, the
\* reject endpoint being targeted exactly when the line says REJECT, whatever
\* the field says; a reply read without one is routed by the field, the
\* reject endpoint being targeted exactly when there is a field and it is a
\* word of rejection.
C18_JsonOnlyWithoutResultLine ==
    Answered =>
        IF ResultLine(llm_text) # None
        THEN /\ ~ParseFailed
             /\ RejectTargeted <=> ResultLine(llm_text) = Some(REJECT)
        ELSE ~ParseFailed =>
                (RejectTargeted <=>
                    /\ HasJsonDecision(llm_text)
                    /\ JsonDecision(llm_text) \in EnglishRejectWords \cup {REJECT})

\* What does hold: so it is for every reply on which parse_llm_json returns.
ResultLineFirstUnlessRaised ==
    Replied =>
        IF ResultLine(llm_text) # None
        THEN RejectTargeted <=> ResultLine(llm_text) = Some(REJECT)
        ELSE RejectTargeted <=>
                /\ HasJsonDecision(llm_text)
                /\ JsonDecision(llm_text) \in EnglishRejectWords \cup {REJECT}

(***************************************************************************)
(* Properties of parse_entries on records with a malformed header          *)
(* (SpecRecords)                                                           *)
(***************************************************************************)
RECURSIVE EntriesOf(_)
\* The entries of the records whose header matches, in order.
EntriesOf(rs) ==
    IF rs = <<>> THEN <<>>
    ELSE (IF Head(rs).entry.some THEN <<Head(rs).entry.v>> ELSE <<>>) \o EntriesOf(Tail(rs))

\* C19: a record whose header line does not match the header pattern yields
\* no entry, and parsing goes on at the next fence: the entries are those of
\* the records with a matching header, all of them, in order.
C19_MalformedHeaderSkipped ==
    \A t \in ParsedRecordTexts : entries = EntriesOf(t.records)

\* A text whose first record has a malformed header, followed by two records
\* that yield their entries.
C19_Witness ==
    \E t \in ParsedRecordTexts :
        /\ Len(t.records) = 3
        /\ t.records[1].h = BadHeader
        /\ t.records[2].h # BadHeader /\ t.records[3].h # BadHeader
        /\ Len(entries) = 2
        /\ entries[1] = t.records[2].entry.v
        /\ entries[2] = t.records[3].entry.v

(***************************************************************************)
(* Properties of the date and type of an entry (SpecType)                  *)
(***************************************************************************)
\* Two texts that differ in the case of their letters at most.
SameIgnoringCase(a, b) ==
    /\ Len(a) = Len(b)
    /\ \A i \in 1..Len(a) :
          \/ a[i] = b[i]
          \/ \E j \in 1..Len(UpperSeq) : {a[i], b[i]} = {UpperSeq[j], LowerSeq[j]}

InKeywords(raw, keywords) ==
    \E n \in 1..Len(keywords) : SameIgnoringCase(raw, keywords[n])

\* C20: for a matching header the entry's date is the date token of the
\* header, and its type is Question if the matched keyword is, ignoring case,
\* one of the Question keywords, otherwise Answer if it is one of the Answer
\* keywords, otherwise Unknown; a keyword of both lists gives Question.
C20_DateAndType ==
    (pc = "classified" /\ out.some) =>
        /\ out.v.date = arg.date
        /\ out.v.type = IF InKeywords(out.v.raw, arg.question_keyword) THEN "Question"
                        ELSE IF InKeywords(out.v.raw, arg.answer_keyword) THEN "Answer"
                        ELSE "Unknown"

\* A header whose matched keyword is in both lists, classified as Question.
C20_Witness ==
    /\ pc = "classified"
    /\ out.some
    /\ InKeywords(out.v.raw, arg.question_keyword)
    /\ InKeywords(out.v.raw, arg.answer_keyword)
    /\ out.v.type = "Question"
    /\ out.v.date = arg.date

(***************************************************************************)
(* Properties of the transcript in an oracle request (SpecGate)            *)
(***************************************************************************)
\* C21: every oracle request carries a well-formed transcript: the entry list
\* about to be sent, and the one that was sent, is not empty, each of its
\* entries has a non-empty body, and its last entry is an Answer.
C21_RequestWellFormed ==
    /\ pc \in {"p_write", "p_llm_send"} =>
          /\ entries # <<>>
          /\ \A i \in 1..Len(entries) : entries[i].data # <<>>
          /\ entries[Len(entries)].type = "Answer"
    /\ llm_request.some =>
          /\ llm_request.v # <<>>
          /\ \A i \in 1..Len(llm_request.v) : llm_request.v[i].text # <<>>
          /\ llm_request.v[Len(llm_request.v)].type = "answer"

\* A request sent in partial mode: a question and an answer, both whole, the
\* entry after the answer left out.
C21_Witness ==
    /\ llm_request.some
    /\ Logged("partial")
    /\ Len(llm_request.v) = 2
    /\ llm_request.v[1].type = "question"
    /\ llm_request.v[1].text = <<"a", "b">>
    /\ llm_request.v[2].type = "answer"
    /\ llm_request.v[2].text = <<"c", "d", "e">>

(***************************************************************************)
(* Properties of a stop request in a run that keeps running (SpecLive)     *)
(***************************************************************************)
\* C22 (as stated): once STOP_REQUESTED is set, monitor_directory eventually
\* returns (or a second signal exits the process), whatever is in the
\* monitored directory, an empty directory included.
C22_StopHonoured ==
    STOP_REQUESTED ~> (pc \in Ended)

\* What does hold in such a run: once STOP_REQUESTED is set, the monitor
\* returns (or is exited), or the directory is seen empty.
StopHonouredUnlessEmpty ==
    STOP_REQUESTED ~> (pc \in Ended \/ Listing(files) = <<>>)

\* Every call of process_case comes to its end.
CaseTerminates ==
    (pc \in InCase) ~> (pc \in {"m_after", "m_error", "m_exited"})

(***************************************************************************)
(* Properties of a stop request and the start of a case (Spec)             *)
(***************************************************************************)

\* C23 (as stated): once STOP_REQUESTED is set, no call of process_case
\* begins, wherever the signal falls between the steps of the monitor loop,
\* the steps of wait_for_stable_size included.
C23_NoCaseAfterStop ==
    [][STOP_REQUESTED => \A p \in Paths : calls'[p].invoked = calls[p].invoked]_vars

====
